---- MODULE Spec2Model ----
(***************************************************************************)
(* Model of the DICOM viewer state machine DicomViewerState                *)
(* (src/dicom_viewer/states/dicom_state.py): the directory scan with its   *)
(* slice ordering, and the events that follow it.                          *)
(*                                                                         *)
(* Conventions.  A Python str is a sequence of character codes when it is  *)
(* compared (file names, series UIDs) and a sequence of text pieces when   *)
(* it is only formatted (messages).  A header value as pydicom hands it    *)
(* over is a record: [k |-> "none"] for an absent tag, [k |-> "num", v]    *)
(* for a number, [k |-> "str"] for text float() rejects, [k |-> "seq", v]  *)
(* for a multi-valued tag.  float("inf") is [k |-> "inf"].                 *)
(***************************************************************************)
EXTENDS Integers, Sequences, FiniteSets, TLC

VARIABLES
    directory_path,           \* DicomViewerState.directory_path
    workflow_step,            \* "select" | "list" | "viewer"
    dicom_files,              \* sequence of absolute paths
    file_names,               \* sequence of base names
    current_index,            \* 0-based, as in the source
    is_loading,
    error_message,
    has_loaded,
    current_image_base64,
    metadata_unlocked,
    metadata_password_input,
    metadata_password_error,
    cached_pixel_array,       \* _cached_pixel_array: None or the decoded frame
    cached_rescale_slope,     \* _cached_rescale_slope
    cached_rescale_intercept, \* _cached_rescale_intercept
    window_center,            \* a float; the model keeps the integral ones
    window_width,
    selected_preset,
    zoom_level,               \* in hundredths: 1.0 is 100
    pan_x,
    pan_y,
    scan_pc,                  \* position of the scan_directory task
    scan_branch,              \* the path of scan_directory the task is on
    scan_dir,                 \* what path.iterdir() yielded to the task
    sortable_dicoms,          \* the task's local list, after its sort
    load_pending,             \* load_selected_image events queued, not yet run
    scan_tasks,               \* scan_directory tasks that may overlap, in start order
    load_tasks,               \* load_selected_image tasks that have read their file
    directory_browser_visible,
    suppress_directory_dialog,
    dialog_pending,           \* open_directory_dialog events reset_scan returned, not yet run
    show_metadata             \* whether the metadata panel is open

vars == <<directory_path, workflow_step, dicom_files, file_names, current_index,
          is_loading, error_message, has_loaded, current_image_base64,
          metadata_unlocked, metadata_password_input, metadata_password_error,
          cached_pixel_array, cached_rescale_slope, cached_rescale_intercept,
          window_center, window_width, selected_preset, zoom_level, pan_x, pan_y,
          scan_pc, scan_branch, scan_dir, sortable_dicoms, load_pending,
          scan_tasks, load_tasks, directory_browser_visible,
          suppress_directory_dialog, dialog_pending, show_metadata>>

-----------------------------------------------------------------------------
(* Values *)

None == [k |-> "none"]
Num(n) == [k |-> "num", v |-> n]
NotANumber == [k |-> "str"]
Vec(s) == [k |-> "seq", v |-> s]
Inf == [k |-> "inf"]

\* len(x) of a multi-valued tag; a scalar has no len() and raises
HasLen(x) == x.k = "seq"

\* float(x) succeeds
IsFloat(x) == x.k = "num"

\* Python's < and == on floats, with float("inf")
FloatLT(a, b) == a.k = "num" /\ (b.k = "inf" \/ (b.k = "num" /\ a.v < b.v))

\* Python's < on str: by code point, a proper prefix first
RECURSIVE StrLT(_, _)
StrLT(s, t) ==
    IF t = <<>> THEN FALSE
    ELSE IF s = <<>> THEN TRUE
    ELSE IF Head(s) # Head(t) THEN Head(s) < Head(t)
    ELSE StrLT(Tail(s), Tail(t))

\* str.lower() on the ASCII letters
LowerChar(c) == IF c >= 65 /\ c <= 90 THEN c + 32 ELSE c

LowerForgotten(s) == s

Lower(s) == [i \in 1..Len(s) |-> LowerChar(s[i])]

-----------------------------------------------------------------------------
(* _compute_slice_position and _dicom_sort_key *)

Cross(r, c) == << r[2] * c[3] - r[3] * c[2],
                  r[3] * c[1] - r[1] * c[3],
                  r[1] * c[2] - r[2] * c[1] >>
Dot(a, b) == a[1] * b[1] + a[2] * b[2] + a[3] * b[3]
NormIsPositive(n) == Dot(n, n) > 0

\* [float(x) for x in s[lo:hi]] does not raise
AllFloat(s, lo, hi) == \A i \in lo..hi : IsFloat(s[i])
Floats(s, lo) == << s[lo].v, s[lo + 1].v, s[lo + 2].v >>

ProjectedPositionNoNormCheck(pos, iop) ==
    IF pos.k # "none" /\ iop.k # "none"
       /\ HasLen(iop) /\ HasLen(pos)
       /\ Len(iop.v) >= 6 /\ Len(pos.v) >= 3
       /\ AllFloat(iop.v, 1, 6)
       /\ AllFloat(pos.v, 1, 3)
    THEN Num(Dot(Cross(Floats(iop.v, 1), Floats(iop.v, 4)), Floats(pos.v, 1)))
    ELSE None

\* lines 344-354: the projection on the slice normal, or None when the branch
\* is not taken, finds a zero normal, or raises inside its try
ProjectedPosition(pos, iop) ==
    IF pos.k # "none" /\ iop.k # "none"
       /\ HasLen(iop) /\ HasLen(pos)
       /\ Len(iop.v) >= 6 /\ Len(pos.v) >= 3
       /\ AllFloat(iop.v, 1, 6)
       /\ NormIsPositive(Cross(Floats(iop.v, 1), Floats(iop.v, 4)))
       /\ AllFloat(pos.v, 1, 3)
    THEN Num(Dot(Cross(Floats(iop.v, 1), Floats(iop.v, 4)), Floats(pos.v, 1)))
    ELSE None

\* lines 355-360: the raw Z of the position
RawZ(pos) ==
    IF pos.k # "none" /\ HasLen(pos) /\ Len(pos.v) >= 3 /\ IsFloat(pos.v[3])
    THEN Num(pos.v[3].v)
    ELSE None

\* lines 361-367
SliceLocationValue(sl) == IF sl.k # "none" /\ IsFloat(sl) THEN Num(sl.v) ELSE None

ComputeSlicePositionNoNormal(ds) ==
    IF RawZ(ds.pos).k # "none" THEN RawZ(ds.pos)
    ELSE SliceLocationValue(ds.sl)

\* lines 340-367
ComputeSlicePosition(ds) ==
    IF ProjectedPosition(ds.pos, ds.iop).k # "none"
    THEN ProjectedPosition(ds.pos, ds.iop)
    ELSE IF RawZ(ds.pos).k # "none" THEN RawZ(ds.pos)
    ELSE SliceLocationValue(ds.sl)

\* lines 373-377
InstanceVal(ds) == IF ds.inst.k # "none" /\ IsFloat(ds.inst) THEN Num(ds.inst.v) ELSE None

PrimaryNoInstance(ds) ==
    IF ComputeSlicePosition(ds).k # "none" THEN ComputeSlicePosition(ds) ELSE Inf

\* lines 378-380
Primary(ds) ==
    IF ComputeSlicePosition(ds).k # "none" THEN ComputeSlicePosition(ds)
    ELSE IF InstanceVal(ds).k # "none" THEN InstanceVal(ds)
    ELSE Inf

SecondaryAlwaysInf(ds) == Inf

\* line 381
Secondary(ds) == IF InstanceVal(ds).k # "none" THEN InstanceVal(ds) ELSE Inf

DicomSortKeyNoSeries(ds, name) ==
    [series |-> <<>>, primary |-> Primary(ds), secondary |-> Secondary(ds),
     lname |-> Lower(name)]

\* line 382
DicomSortKey(ds, name) ==
    [series |-> ds.series, primary |-> Primary(ds), secondary |-> Secondary(ds),
     lname |-> Lower(name)]

\* Python's < on the key tuples: the first component that differs decides
KeyLT(a, b) ==
    IF a.series # b.series THEN StrLT(a.series, b.series)
    ELSE IF a.primary # b.primary THEN FloatLT(a.primary, b.primary)
    ELSE IF a.secondary # b.secondary THEN FloatLT(a.secondary, b.secondary)
    ELSE StrLT(a.lname, b.lname)

-----------------------------------------------------------------------------
(* sorted() and list.sort(): stable, by insertion *)

\* Path.__lt__ for two entries of one directory (POSIX flavour): by name
PathLT(e, f) == StrLT(e.name, f.name)

RECURSIVE InsertByPath(_, _)
InsertByPath(s, e) ==
    IF s = <<>> THEN <<e>>
    ELSE IF PathLT(e, Head(s)) THEN <<e>> \o s
    ELSE <<Head(s)>> \o InsertByPath(Tail(s), e)

RECURSIVE SortedByPath(_)
SortedByPath(s) ==
    IF s = <<>> THEN <<>>
    ELSE InsertByPath(SortedByPath(SubSeq(s, 1, Len(s) - 1)), s[Len(s)])

RECURSIVE InsertByKey(_, _)
InsertByKey(s, item) ==
    IF s = <<>> THEN <<item>>
    ELSE IF KeyLT(item.key, Head(s).key) THEN <<item>> \o s
    ELSE <<Head(s)>> \o InsertByKey(Tail(s), item)

RECURSIVE SortedByKey(_)
SortedByKey(s) ==
    IF s = <<>> THEN <<>>
    ELSE InsertByKey(SortedByKey(SubSeq(s, 1, Len(s) - 1)), s[Len(s)])

-----------------------------------------------------------------------------
(* The file system the scan reads *)

\* load_selected_image events that may wait in the event queue or run, the
\* scans in flight that can queue one counted with them
MaxPendingLoads == 2

V3(x, y, z) == Vec(<<Num(x), Num(y), Num(z)>>)
V6(a, b, c, d, e, f) == Vec(<<Num(a), Num(b), Num(c), Num(d), Num(e), Num(f)>>)

IopAxial == V6(1, 0, 0, 0, 1, 0)         \* normal (0, 0, 1)
IopSagittal == V6(0, 1, 0, 0, 0, 1)      \* normal (1, 0, 0)
IopFlipped == V6(0, 0, 1, 0, 1, 0)       \* normal (-1, 0, 0)
IopDegenerate == V6(1, 0, 0, 1, 0, 0)    \* zero cross product
IopShort == V3(1, 0, 0)                  \* fewer than 6 components
PosShort == Vec(<<Num(0), Num(0)>>)      \* fewer than 3 components

Hdr(series, pos, iop, sl, inst) ==
    [series |-> series, pos |-> pos, iop |-> iop, sl |-> sl, inst |-> inst]

NoSeries == <<>>
SeriesOne == <<49>>

EmptyHeader == Hdr(NoSeries, None, None, None, None)

\* The headers a decodable file of the model can have
Headers ==
    { EmptyHeader,
      Hdr(NoSeries, None, IopAxial, None, None),
      Hdr(NoSeries, None, None, None, Num(1)),
      Hdr(NoSeries, None, None, None, Num(2)),
      Hdr(NoSeries, V3(0, 0, 1), None, None, None),
      Hdr(NoSeries, V3(0, 0, 5), None, None, None),
      Hdr(NoSeries, V3(2, 0, 7), IopFlipped, None, None),
      Hdr(NoSeries, V3(3, 0, 1), IopSagittal, None, None),
      Hdr(NoSeries, V3(0, 0, 5), IopDegenerate, None, None),
      Hdr(NoSeries, V3(0, 0, 1), IopShort, None, Num(1)),
      Hdr(NoSeries, PosShort, IopAxial, Num(4), None),
      Hdr(NoSeries, PosShort, None, None, NotANumber),
      Hdr(SeriesOne, None, None, None, Num(1)),
      Hdr(SeriesOne, None, None, None, None) }

\* File names "A", "B", "a": two that differ only in case, and a pair whose
\* order by code point is not its order after lower()
Names == { <<65>>, <<66>>, <<97>> }

\* What a name of the directory can be: nothing, a subdirectory, a file whose
\* header pydicom.dcmread rejects, or a file with one of the headers
Slots ==
    { [kind |-> "absent", ok |-> FALSE, ds |-> EmptyHeader],
      [kind |-> "dir", ok |-> FALSE, ds |-> EmptyHeader],
      [kind |-> "file", ok |-> FALSE, ds |-> EmptyHeader] }
    \cup { [kind |-> "file", ok |-> TRUE, ds |-> h] : h \in Headers }

Entry(n, slot) == [name |-> n, kind |-> slot.kind, ok |-> slot.ok, ds |-> slot.ds]

Directories ==
    { { Entry(n, f[n]) : n \in { m \in Names : f[m].kind # "absent" } } :
      f \in [Names -> Slots] }

\* path.iterdir() yields the entries in an arbitrary order
RECURSIVE Listings(_)
Listings(S) ==
    IF S = {} THEN { <<>> }
    ELSE UNION { { <<e>> \o p : p \in Listings(S \ {e}) } : e \in S }

\* The directory paths a user can enter, and what the file system holds there
Paths == { "", "/missing", "/file", "/locked", "/ioerr", "/data" }

PathKind(p) ==
    CASE p = "/missing" -> "missing"
      [] p = "/file" -> "notdir"
      [] p = "/locked" -> "denied"
      [] p = "/ioerr" -> "ioerror"
      [] OTHER -> "dir"

-----------------------------------------------------------------------------
(* scan_directory, lines 505-523: from the listing to the ordered items *)

\* f.is_file()
IsRegularFile(e) == e.kind = "file"

\* pydicom.dcmread(file_path, stop_before_pixels=True) does not raise
HeaderDecodes(e) == e.ok

FilesUnsorted(listing) == SelectSeq(listing, IsRegularFile)

\* line 505
Files(listing) == SortedByPath(SelectSeq(listing, IsRegularFile))

\* file_path.absolute(): the directory and the name
AbsolutePath(dir, name) == <<dir, name>>

\* lines 510-513
Item(dir, e) ==
    [key |-> DicomSortKey(e.ds, e.name), path |-> AbsolutePath(dir, e.name),
     name |-> e.name]

DecodedItemsKeepAll(dir, files) == [i \in 1..Len(files) |-> Item(dir, files[i])]

\* lines 506-516: the files whose header decodes, in the order of files
DecodedItems(dir, files) ==
    LET good == SelectSeq(files, HeaderDecodes)
    IN  [i \in 1..Len(good) |-> Item(dir, good[i])]

SortableDicomsUnsorted(dir, listing) == DecodedItems(dir, Files(listing))

\* lines 505-521: sortable_dicoms after sortable_dicoms.sort(key=item[0])
SortableDicoms(dir, listing) == SortedByKey(DecodedItems(dir, Files(listing)))

\* the names taken from item[1], the absolute path
ValidNamesOfPaths(items) == [i \in 1..Len(items) |-> items[i].path]

\* lines 522-523
ValidDicoms(items) == [i \in 1..Len(items) |-> items[i].path]
ValidNames(items) == [i \in 1..Len(items) |-> items[i].name]

-----------------------------------------------------------------------------
(* Messages and images *)

NoMessage == <<>>
MsgEmptyPath == <<"Please enter a valid directory path.">>
MsgNotFound(p) == <<"Directory not found: ", p>>
MsgNoValid == <<"No valid DICOM files found in this directory.">>
MsgPermission ==
    <<"Permission denied when accessing the directory. On macOS, grant Terminal/VS Code access to Desktop or enable Full Disk Access in System Settings > Privacy & Security.">>
MsgAccess(e) == <<"Error accessing directory: ", e>>
MsgLoadPrefix ==
    \* "Error loading image: "
    <<69, 114, 114, 111, 114, 32, 108, 111, 97, 100, 105, 110, 103, 32, 105, 109, 97, 103, 101, 58, 32>>
MsgLoad(e) == MsgLoadPrefix \o e
MsgCompressed ==
    \* "Unable to decode pixel data. This DICOM appears to use a compressed
    \* transfer syntax. Install pylibjpeg (and pylibjpeg-libjpeg) or gdcm to
    \* enable decompression, then restart the app."
    <<85, 110, 97, 98, 108, 101, 32, 116, 111, 32, 100, 101, 99, 111, 100, 101, 32, 112, 105, 120, 101, 108, 32, 100, 97, 116, 97, 46, 32, 84, 104, 105, 115, 32, 68, 73, 67, 79, 77, 32, 97, 112, 112, 101, 97, 114, 115, 32, 116, 111, 32, 117, 115, 101, 32, 97, 32, 99, 111, 109, 112, 114, 101, 115, 115, 101, 100, 32, 116, 114, 97, 110, 115, 102, 101, 114, 32, 115, 121, 110, 116, 97, 120, 46, 32, 73, 110, 115, 116, 97, 108, 108, 32, 112, 121, 108, 105, 98, 106, 112, 101, 103, 32, 40, 97, 110, 100, 32, 112, 121, 108, 105, 98, 106, 112, 101, 103, 45, 108, 105, 98, 106, 112, 101, 103, 41, 32, 111, 114, 32, 103, 100, 99, 109, 32, 116, 111, 32, 101, 110, 97, 98, 108, 101, 32, 100, 101, 99, 111, 109, 112, 114, 101, 115, 115, 105, 111, 110, 44, 32, 116, 104, 101, 110, 32, 114, 101, 115, 116, 97, 114, 116, 32, 116, 104, 101, 32, 97, 112, 112, 46>>

Placeholder == <<"/placeholder.svg">>
DataUriOtherPrefix(frame) == <<"data:image/jpeg;base64,", frame>>

\* lines 691-693: the marker and the base64 text of the PNG encoding of frame
DataUri(frame) == <<"data:image/png;base64,", frame>>

-----------------------------------------------------------------------------
(* The state after construction, lines 15-59 *)

Init ==
    /\ directory_path = ""
    /\ workflow_step = "select"
    /\ dicom_files = <<>>
    /\ file_names = <<>>
    /\ current_index = 0
    /\ is_loading = FALSE
    /\ error_message = NoMessage
    /\ has_loaded = FALSE
    /\ current_image_base64 = Placeholder
    /\ metadata_unlocked = FALSE
    /\ metadata_password_input = ""
    /\ metadata_password_error = ""
    /\ cached_pixel_array = None
    /\ cached_rescale_slope = 1
    /\ cached_rescale_intercept = 0
    /\ window_center = 40
    /\ window_width = 400
    /\ selected_preset = ""
    /\ zoom_level = 100
    /\ pan_x = 0
    /\ pan_y = 0
    /\ scan_pc = "idle"
    /\ scan_branch = "none"
    /\ scan_dir = {}
    /\ sortable_dicoms = <<>>
    /\ load_pending = 0
    /\ scan_tasks = <<>>
    /\ load_tasks = <<>>
    /\ directory_browser_visible = FALSE
    /\ suppress_directory_dialog = FALSE
    /\ dialog_pending = 0
    /\ show_metadata = TRUE

scan_locals == <<scan_pc, scan_branch, scan_dir, sortable_dicoms>>
metadata_lock == <<metadata_unlocked, metadata_password_input, metadata_password_error>>
scan_results == <<dicom_files, file_names, has_loaded, current_index, workflow_step>>
image_state == <<current_image_base64, cached_pixel_array, cached_rescale_slope,
                 cached_rescale_intercept>>
background == <<scan_tasks, load_tasks>>
\* what the page opens and closes: the directory browser and the metadata panel
dialog == <<directory_browser_visible, suppress_directory_dialog, dialog_pending,
            show_metadata>>

\* the loads queued or running, and the scans that can still queue one
Outstanding == load_pending + Len(scan_tasks) + Len(load_tasks)
view_settings == <<window_center, window_width, selected_preset, zoom_level,
                   pan_x, pan_y>>

-----------------------------------------------------------------------------
(* set_directory, lines 404-409 *)

set_directory(path) ==
    /\ directory_path' = path
    /\ error_message' = IF error_message # NoMessage THEN NoMessage ELSE error_message
    /\ UNCHANGED <<dialog, background, view_settings, scan_results, is_loading, image_state, metadata_lock,
                   scan_locals, load_pending>>

-----------------------------------------------------------------------------
(* scan_directory, lines 479-545: a background task.  Each "async with self" *)
(* block is one atomic step; between the blocks the task reads the state   *)
(* and the file system without the lock.                                   *)

\* lines 482-492
ScanStart ==
    /\ scan_pc = "idle"
    /\ load_pending < MaxPendingLoads
    /\ is_loading' = TRUE
    /\ error_message' = NoMessage
    /\ has_loaded' = FALSE
    /\ workflow_step' = "select"
    /\ dicom_files' = <<>>
    /\ file_names' = <<>>
    /\ current_image_base64' = Placeholder
    /\ metadata_unlocked' = FALSE
    /\ metadata_password_input' = ""
    /\ metadata_password_error' = ""
    /\ scan_pc' = "probe"
    /\ UNCHANGED <<dialog, background, view_settings, directory_path, current_index, cached_pixel_array,
                   cached_rescale_slope, cached_rescale_intercept, scan_branch,
                   scan_dir, sortable_dicoms, load_pending>>

ProbeTo(branch, dir, items) ==
    /\ scan_pc = "probe"
    /\ scan_pc' = "publish"
    /\ scan_branch' = branch
    /\ scan_dir' = dir
    /\ sortable_dicoms' = items
    /\ UNCHANGED <<dialog, background, view_settings, directory_path, scan_results, is_loading, error_message,
                   image_state, metadata_lock, load_pending>>

\* line 494
ScanProbeEmptyPath ==
    /\ scan_pc = "probe"
    /\ directory_path = ""
    /\ ProbeTo("empty_path", {}, <<>>)

\* lines 499-500
ScanProbeNotFound ==
    /\ scan_pc = "probe"
    /\ directory_path # ""
    /\ PathKind(directory_path) \in {"missing", "notdir"}
    /\ ProbeTo("not_found", {}, <<>>)

\* line 505 raises PermissionError
ScanProbeDenied ==
    /\ scan_pc = "probe"
    /\ directory_path # ""
    /\ PathKind(directory_path) = "denied"
    /\ ProbeTo("permission", {}, <<>>)

\* line 505 raises another OSError
ScanProbeOSError ==
    /\ scan_pc = "probe"
    /\ directory_path # ""
    /\ PathKind(directory_path) = "ioerror"
    /\ ProbeTo("os_error", {}, <<>>)

\* lines 505-521
ScanProbeList ==
    /\ scan_pc = "probe"
    /\ directory_path # ""
    /\ PathKind(directory_path) = "dir"
    /\ \E dir \in Directories :
         \E listing \in Listings(dir) :
           LET items == SortableDicoms(directory_path, listing)
           IN  ProbeTo(IF items = <<>> THEN "no_valid" ELSE "success", dir, items)

PublishTo(msg, loading) ==
    /\ scan_pc = "publish"
    /\ scan_pc' = "finally"
    /\ error_message' = msg
    /\ is_loading' = loading
    /\ UNCHANGED <<dialog, background, view_settings, directory_path, scan_results, image_state, metadata_lock,
                   scan_branch, scan_dir, sortable_dicoms, load_pending>>

\* lines 495-498
ScanPublishEmptyPath ==
    /\ scan_pc = "publish"
    /\ scan_branch = "empty_path"
    /\ PublishTo(MsgEmptyPath, FALSE)

\* lines 501-504
ScanPublishNotFound ==
    /\ scan_pc = "publish"
    /\ scan_branch = "not_found"
    /\ PublishTo(MsgNotFound(directory_path), FALSE)

\* lines 531-538
ScanPublishDenied ==
    /\ scan_pc = "publish"
    /\ scan_branch = "permission"
    /\ PublishTo(MsgPermission, is_loading)

\* lines 539-542
ScanPublishOSError ==
    /\ scan_pc = "publish"
    /\ scan_branch = "os_error"
    /\ PublishTo(MsgAccess("OSError"), is_loading)

\* lines 517-519
ScanPublishNoValid ==
    /\ scan_pc = "publish"
    /\ scan_branch = "no_valid"
    /\ PublishTo(MsgNoValid, is_loading)

\* lines 520-529
ScanPublishSuccess ==
    /\ scan_pc = "publish"
    /\ scan_branch = "success"
    /\ scan_pc' = "finally"
    /\ dicom_files' = ValidDicoms(sortable_dicoms)
    /\ file_names' = ValidNames(sortable_dicoms)
    /\ has_loaded' = TRUE
    /\ current_index' = 0
    /\ workflow_step' = "list"
    /\ UNCHANGED <<dialog, background, view_settings, directory_path, is_loading, error_message, image_state,
                   metadata_lock, scan_branch, scan_dir, sortable_dicoms,
                   load_pending>>

ScanReturnAlwaysLoad(branch) == "load_selected_image"

\* lines 498, 504, 530: the event the handler returns
ScanReturn(branch) == IF branch = "success" THEN "load_selected_image" ELSE "none"

\* lines 543-545, then the returned event is queued
ScanFinally ==
    /\ scan_pc = "finally"
    /\ is_loading' = FALSE
    /\ load_pending' = IF ScanReturn(scan_branch) = "load_selected_image"
                       THEN load_pending + 1 ELSE load_pending
    /\ scan_pc' = "idle"
    /\ scan_branch' = "none"
    /\ scan_dir' = {}
    /\ sortable_dicoms' = <<>>
    /\ UNCHANGED <<dialog, background, view_settings, directory_path, scan_results, error_message, image_state,
                   metadata_lock>>

-----------------------------------------------------------------------------
(* Pixel arrays.  A numpy array is its shape and its samples in C order, so *)
(* that reshape and indexing act as they do in numpy.                      *)

Array(shape, data) == [shape |-> shape, data |-> data]
Ndim(a) == Len(a.shape)
SamplesOf(a) == {a.data[i] : i \in DOMAIN a.data}

\* np.min, np.max (lines 665-668); both raise ValueError on an empty array
MinOf(a) == CHOOSE m \in SamplesOf(a) : \A x \in SamplesOf(a) : m <= x
MaxOf(a) == CHOOSE m \in SamplesOf(a) : \A x \in SamplesOf(a) : x <= m

\* line 656
IsRgb(a) == Ndim(a) = 3 /\ a.shape[3] \in {3, 4}

\* lines 657-661: pixel_data.reshape((-1,) + pixel_data.shape[-2:])[0]
FirstFrame(a) ==
    LET rows == a.shape[Ndim(a) - 1]
        cols == a.shape[Ndim(a)]
    IN  Array(<<rows, cols>>, SubSeq(a.data, 1, rows * cols))

\* the quotient of two integers cut towards zero, as astype(np.uint8) cuts a
\* float; hi - lo of the source is den, which is negative for a negative width
Trunc(num, den) ==
    LET n == IF den < 0 THEN 0 - num ELSE num
        d == IF den < 0 THEN 0 - den ELSE den
    IN  IF n >= 0 THEN n \div d ELSE 0 - ((0 - n) \div d)

\* astype(np.uint8) of a float outside 0..255 is a C conversion without a
\* defined result: builds wrap modulo 256 or saturate
Uint8Casts(v) ==
    IF v \in 0..255 THEN {v}
    ELSE {v % 256, IF v < 0 THEN 0 ELSE 255}

HuValueAddFirst(sample, slope, intercept) == (sample + intercept) * slope

\* lines 673-676
HuValue(sample, slope, intercept) == sample * slope + intercept

\* np.clip(hu_image, min_val, max_val), line 681: minimum(maximum(x, lo), hi)
Clip(x, lo, hi) ==
    LET m == IF x < lo THEN lo ELSE x
    IN  IF m > hi THEN hi ELSE m

FlatWindowKeeps(windowed) == windowed

\* line 685: windowed * 0
FlatWindow(windowed) == windowed * 0

\* lines 677-686 for one sample.  center - width/2 and center + width/2 are
\* kept doubled (min2, max2), and so is the sample, which keeps halves exact.
WindowedSample(hu, center, width) ==
    LET min2 == 2 * center - width
        max2 == 2 * center + width
        windowed2 == Clip(2 * hu, min2, max2)
    IN  IF max2 # min2
        THEN Trunc(255 * (windowed2 - min2), max2 - min2)
        ELSE FlatWindow(windowed2 \div 2)

ScaleColourTo256(v, lo, hi) == Trunc(256 * (v - lo), hi - lo)

\* line 668 for one sample, then astype(np.uint8), line 669
ScaleColour(v, lo, hi) == Trunc(255 * (v - lo), hi - lo)

\* what Image.fromarray and pil_image.save hand on: the mode, the shape and
\* the 8-bit samples
Raster(mode, shape, px) == [mode |-> mode, shape |-> shape, px |-> px]

RenderError == [k |-> "exception"]

\* the colour path with the window applied: black below a width of 6
RenderColourWindowed(a) ==
    IF a.data = <<>> THEN {RenderError}
    ELSE LET lo == MinOf(a)
             hi == MaxOf(a)
             mode == IF a.shape[3] = 3 THEN "RGB" ELSE "RGBA"
         IN  IF window_width < 6
             THEN {Raster(mode, a.shape, [i \in DOMAIN a.data |-> 0])}
             ELSE IF hi # lo
             THEN {Raster(mode, a.shape,
                          [i \in DOMAIN a.data |-> ScaleColour(a.data[i], lo, hi)])}
             ELSE {Raster(mode, a.shape, [i \in DOMAIN a.data |-> u]) :
                     u \in Uint8Casts(lo)}

\* lines 663-671: the colour path
RenderColour(a) ==
    IF a.data = <<>> THEN {RenderError}
    ELSE LET lo == MinOf(a)
             hi == MaxOf(a)
             mode == IF a.shape[3] = 3 THEN "RGB" ELSE "RGBA"
         IN  IF hi # lo
             THEN {Raster(mode, a.shape,
                          [i \in DOMAIN a.data |-> ScaleColour(a.data[i], lo, hi)])}
             ELSE {Raster(mode, a.shape, [i \in DOMAIN a.data |-> u]) :
                     u \in Uint8Casts(lo)}

\* the grayscale path with the window centre moved by the zoom
RenderGrayZoomed(a, slope, intercept, center, width) ==
    {Raster("L", a.shape,
            [i \in DOMAIN a.data |->
               WindowedSample(HuValue(a.data[i], slope, intercept),
                              center + zoom_level - 100, width)])}

\* lines 672-689: the grayscale path
RenderGray(a, slope, intercept, center, width) ==
    {Raster("L", a.shape,
            [i \in DOMAIN a.data |->
               WindowedSample(HuValue(a.data[i], slope, intercept), center, width)])}

\* lines 654-689: the rasters _process_image can arrive at, or the exception
RenderOutcomes(a, slope, intercept, center, width) ==
    IF IsRgb(a) THEN RenderColour(a)
    ELSE RenderGray(IF Ndim(a) >= 3 THEN FirstFrame(a) ELSE a,
                    slope, intercept, center, width)

ImageOfNoFallback(outcome) == DataUri(outcome)

\* lines 690-696
ImageOf(outcome) == IF outcome = RenderError THEN Placeholder ELSE DataUri(outcome)

\* _process_image, lines 651-696: the values current_image_base64 can have
\* after the call, shown being its value before
ProcessImage(a, slope, intercept, center, width, shown) ==
    IF a = None THEN {shown}
    ELSE {ImageOf(r) : r \in RenderOutcomes(a, slope, intercept, center, width)}

-----------------------------------------------------------------------------
(* _format_dicom_error, lines 698-712.  str(error) and the message are      *)
(* sequences of character codes.                                           *)

\* Python's "sub in s"
Contains(sub, s) ==
    \E i \in 0..(Len(s) - Len(sub)) : \A j \in 1..Len(sub) : s[i + j] = sub[j]

\* lines 702-705
Keywords ==
    { <<116, 114, 97, 110, 115, 102, 101, 114, 32, 115, 121, 110, 116, 97, 120>>,  \* "transfer syntax"
      <<110, 111, 32, 104, 97, 110, 100, 108, 101, 114>>,  \* "no handler"
      <<100, 101, 99, 111, 100, 101>>,  \* "decode"
      <<99, 111, 109, 112, 114, 101, 115, 115, 101, 100>> }  \* "compressed"

FormatDicomErrorCaseSensitive(message) ==
    IF \E key \in Keywords : Contains(key, message)
    THEN MsgCompressed
    ELSE MsgLoad(message)

FormatDicomError(message) ==
    LET lowered == Lower(message)
    IN  IF \E key \in Keywords : Contains(key, lowered)
        THEN MsgCompressed
        ELSE MsgLoad(message)

-----------------------------------------------------------------------------
(* What pydicom.dcmread and ds.pixel_array make of a file, lines 588-593    *)

\* a dataset whose pixel data decodes.  slope and intercept are None when the
\* tag is absent; metadata is None, or the exception _extract_metadata raises
\* on the header values
Dataset(array, slope, intercept, metadata) ==
    [k |-> "dataset", pixel_array |-> array, RescaleSlope |-> slope,
     RescaleIntercept |-> intercept, metadata |-> metadata]

\* dcmread or pixel_array raises, str(e) being text
Unreadable(text) == [k |-> "error", text |-> text]

\* getattr(ds, "RescaleSlope", 1.0), getattr(ds, "RescaleIntercept", 0.0)
RescaleSlopeOf(ds) == IF ds.RescaleSlope.k = "none" THEN 1 ELSE ds.RescaleSlope.v
RescaleInterceptOf(ds) ==
    IF ds.RescaleIntercept.k = "none" THEN 0 ELSE ds.RescaleIntercept.v

\* str(e) of the exceptions dcmread and pixel_array raise
ErrMissing == <<70, 105, 108, 101, 32, 105, 115, 32, 109, 105, 115, 115, 105, 110, 103>>  \* "File is missing"
ErrorTexts ==
    { ErrMissing,
      <<78, 111, 32, 72, 97, 110, 100, 108, 101, 114>>,  \* "No Handler"
      <<84, 114, 97, 110, 115, 102, 101, 114, 32, 83, 121, 110, 116, 97, 120, 32, 49, 46, 50>>,  \* "Transfer Syntax 1.2"
      <<97, 32, 68, 101, 99, 111, 100, 101, 114, 32, 105, 115, 32, 110, 101, 101, 100, 101, 100>>,  \* "a Decoder is needed"
      <<105, 115, 32, 67, 79, 77, 80, 82, 69, 83, 83, 69, 68>>,  \* "is COMPRESSED"
      <<99, 111, 109, 112, 114, 101, 115, 115, 32, 102, 97, 105, 108, 101, 100>>,  \* "compress failed"
      <<110, 111, 32, 32, 104, 97, 110, 100, 108, 101, 114>>,  \* "no  handler"
      <<>> }  \* ""

\* str(e) of the exception _extract_metadata raises, "Unknown format code"
ErrFormat == <<85, 110, 107, 110, 111, 119, 110, 32, 102, 111, 114, 109, 97, 116, 32, 99, 111, 100, 101>>

\* the files of the directory /study: any of them can hold any of these.
\* Grayscale frames are rows x columns, colour frames rows x columns x channels,
\* stacks frames x rows x columns (x channels).
StudyContents ==
    { Dataset(Array(<<1, 7>>, <<-3, -2, -1, 0, 1, 2, 3>>), None, None, None),
      Dataset(Array(<<2, 3>>, <<-161, -160, 40, 239, 240, 241>>), Num(1), Num(0), None),
      Dataset(Array(<<2, 2>>, <<0, 432, 532, 632>>), Num(2), Num(-1024), None),
      Dataset(Array(<<1, 2, 3>>, <<10, 20, 30, 40, 50, 61>>), None, None, None),
      Dataset(Array(<<1, 1, 4>>, <<0, 85, 170, 255>>), None, None, None),
      Dataset(Array(<<1, 1, 3>>, <<-100, 0, 1000>>), None, None, None),
      Dataset(Array(<<1, 1, 3>>, <<100, 100, 100>>), None, None, None),
      Dataset(Array(<<1, 1, 3>>, <<300, 300, 300>>), None, None, None),
      Dataset(Array(<<1, 1, 3>>, <<0, 0, 0>>), None, None, None),
      Dataset(Array(<<0, 0, 3>>, <<>>), None, None, None),
      Dataset(Array(<<2, 1, 2>>, <<40, 240, -160, 0>>), Num(1), Num(0), None),
      Dataset(Array(<<2, 1, 3>>, <<1, 2, 3, 4, 5, 6>>), None, None, None),
      Dataset(Array(<<2, 2, 1, 3>>,
                    <<10, 20, 30, 40, 50, 60, 0, 0, 0, 255, 255, 255>>),
              None, None, None),
      Dataset(Array(<<2, 3>>, <<-161, -160, 40, 239, 240, 241>>), Num(1), Num(0),
              Unreadable(ErrFormat)) }
    \cup { Unreadable(t) : t \in ErrorTexts }

\* the files of the other directories: one frame, slope and intercept absent,
\* a header _extract_metadata can format, or a file that cannot be read
DataContents ==
    { Dataset(Array(<<1, 1>>, <<0>>), None, None, None),
      Unreadable(ErrMissing) }

\* the directories of a session: /ct holds the slices A and B, /mr one file
\* whose header decodes and whose pixel data does not
SeriesPaths == { "/ct", "/mr" }
SeriesFile(file_path) ==
    IF file_path[1] = "/mr" THEN Unreadable(ErrMissing)
    ELSE Dataset(Array(<<1, 1>>, <<200 * (file_path[2][1] - 65) - 100>>),
                 None, None, None)

DcmRead(file_path) ==
    IF file_path[1] = "/study" THEN StudyContents
    ELSE IF file_path[1] \in SeriesPaths THEN { SeriesFile(file_path) }
    ELSE DataContents

-----------------------------------------------------------------------------
(* load_selected_image, lines 581-598 *)

\* lines 584-585
LoadSkip ==
    /\ load_pending > 0
    /\ dicom_files = <<>> \/ current_index >= Len(dicom_files)
    /\ load_pending' = load_pending - 1
    /\ UNCHANGED <<dialog, directory_path, scan_results, is_loading, error_message,
                   image_state, metadata_lock, scan_locals, view_settings, background>>

\* lines 586-594: the file decodes and its header formats; _process_image
\* renders the frame or falls back
LoadSuccess ==
    /\ load_pending > 0
    /\ dicom_files # <<>> /\ current_index < Len(dicom_files)
    /\ load_pending' = load_pending - 1
    /\ \E ds \in DcmRead(dicom_files[current_index + 1]) :
         /\ ds.k = "dataset" /\ ds.metadata.k = "none"
         /\ cached_pixel_array' = ds.pixel_array
         /\ cached_rescale_slope' = RescaleSlopeOf(ds)
         /\ cached_rescale_intercept' = RescaleInterceptOf(ds)
         /\ \E image \in ProcessImage(ds.pixel_array, RescaleSlopeOf(ds),
                                      RescaleInterceptOf(ds), window_center,
                                      window_width, current_image_base64) :
              current_image_base64' = image
    /\ UNCHANGED <<dialog, directory_path, scan_results, is_loading, error_message,
                   metadata_lock, scan_locals, view_settings, background>>

\* lines 590-598: the pixel data decodes, _extract_metadata raises on a header
\* value (lines 609-616) before _process_image is reached
LoadMetadataFailure ==
    /\ load_pending > 0
    /\ dicom_files # <<>> /\ current_index < Len(dicom_files)
    /\ load_pending' = load_pending - 1
    /\ \E ds \in DcmRead(dicom_files[current_index + 1]) :
         /\ ds.k = "dataset" /\ ds.metadata.k = "error"
         /\ cached_pixel_array' = ds.pixel_array
         /\ cached_rescale_slope' = RescaleSlopeOf(ds)
         /\ cached_rescale_intercept' = RescaleInterceptOf(ds)
         /\ error_message' = FormatDicomError(ds.metadata.text)
    /\ UNCHANGED <<dialog, directory_path, scan_results, is_loading, current_image_base64,
                   metadata_lock, scan_locals, view_settings, background>>

\* lines 588-590 and 595-598: pydicom.dcmread or ds.pixel_array raises an
\* exception e with str(e) = text
LoadFailureWith(text) ==
    /\ load_pending > 0
    /\ dicom_files # <<>> /\ current_index < Len(dicom_files)
    /\ Unreadable(text) \in DcmRead(dicom_files[current_index + 1])
    /\ load_pending' = load_pending - 1
    /\ error_message' = FormatDicomError(text)
    /\ UNCHANGED <<dialog, directory_path, scan_results, is_loading, image_state,
                   metadata_lock, scan_locals, view_settings, background>>

LoadFailure == \E text \in ErrorTexts : LoadFailureWith(text)

-----------------------------------------------------------------------------
(* The scan and what follows it *)

NextScan ==
    \/ \E path \in Paths : set_directory(path)
    \/ ScanStart
    \/ ScanProbeEmptyPath
    \/ ScanProbeNotFound
    \/ ScanProbeDenied
    \/ ScanProbeOSError
    \/ ScanProbeList
    \/ ScanPublishEmptyPath
    \/ ScanPublishNotFound
    \/ ScanPublishDenied
    \/ ScanPublishOSError
    \/ ScanPublishNoValid
    \/ ScanPublishSuccess
    \/ ScanFinally
    \/ LoadSkip
    \/ LoadSuccess
    \/ LoadFailure

SpecScan == Init /\ [][NextScan]_vars

-----------------------------------------------------------------------------
(* The window controls, lines 714-730 and 782-832 *)

\* str.strip() of the blanks float() ignores
RECURSIVE StripLeft(_)
StripLeft(s) == IF s # <<>> /\ Head(s) = 32 THEN StripLeft(Tail(s)) ELSE s
RECURSIVE StripRight(_)
StripRight(s) ==
    IF s # <<>> /\ s[Len(s)] = 32 THEN StripRight(SubSeq(s, 1, Len(s) - 1)) ELSE s

RECURSIVE DigitsValue(_)
DigitsValue(s) ==
    IF s = <<>> THEN 0
    ELSE 10 * DigitsValue(SubSeq(s, 1, Len(s) - 1)) + (s[Len(s)] - 48)

ValueError == [k |-> "ValueError"]

\* float(value), lines 717 and 726, on the texts of whole numbers: blanks, a
\* sign, digits.  Other text of the inputs below raises ValueError.
Float(value) ==
    LET t == StripRight(StripLeft(value))
        signed == t # <<>> /\ Head(t) \in {43, 45}
        digits == IF signed THEN Tail(t) ELSE t
    IN  IF digits # <<>> /\ \A i \in DOMAIN digits : digits[i] \in 48..57
        THEN Num(IF signed /\ Head(t) = 45 THEN 0 - DigitsValue(digits)
                 ELSE DigitsValue(digits))
        ELSE ValueError

\* the values the width and the level control can send, and others a client can
WidthInputs ==
    { <<48>>,                 \* "0"
      <<45, 53>>,             \* "-5"
      <<53>>,                 \* "5"
      <<32, 52, 48, 48, 32>>, \* " 400 "
      <<119, 105, 100, 101>> }  \* "wide"
CenterInputs ==
    { <<48>>,       \* "0"
      <<45, 51>>,   \* "-3"
      <<>> }        \* ""

\* the table of apply_preset, lines 785-817
Presets ==
    ("Soft Tissue" :> <<40, 400>>) @@
    ("Lung" :> <<-600, 1500>>) @@
    ("Bone" :> <<300, 1500>>) @@
    ("Brain" :> <<40, 80>>) @@
    ("Abdomen" :> <<50, 400>>) @@
    ("Liver" :> <<60, 150>>) @@
    ("Mediastinum" :> <<40, 350>>) @@
    ("Spine" :> <<30, 300>>) @@
    ("Pelvis" :> <<50, 450>>) @@
    ("Head/Neck" :> <<50, 250>>) @@
    ("CTA/Vascular" :> <<150, 600>>) @@
    ("Kidney" :> <<30, 300>>) @@
    ("Pancreas" :> <<50, 200>>) @@
    ("Trauma" :> <<50, 500>>) @@
    ("Subdural" :> <<50, 130>>) @@
    ("Stroke" :> <<35, 30>>) @@
    ("Body" :> <<40, 450>>) @@
    ("Extremity/MSK" :> <<40, 350>>) @@
    ("Temporal Bone" :> <<700, 4000>>) @@
    ("Sinus" :> <<50, 300>>) @@
    ("Angio Bone Sub" :> <<300, 1200>>) @@
    ("Lung HRCT" :> <<-700, 1200>>) @@
    ("Orbits" :> <<50, 300>>) @@
    ("CTA Head/Neck" :> <<180, 700>>) @@
    ("Arterial" :> <<150, 600>>) @@
    ("Venous" :> <<100, 500>>) @@
    ("Colon/Bowel" :> <<50, 400>>) @@
    ("Adrenal" :> <<40, 300>>) @@
    ("Gallbladder" :> <<30, 200>>) @@
    ("Skin/Subcutaneous" :> <<50, 250>>) @@
    ("Cardiac" :> <<75, 350>>)

\* preset_options, lines 862-897: the names the preset menu offers
preset_options ==
    << "Soft Tissue", "Lung", "Bone", "Brain", "Abdomen", "Liver", "Mediastinum",
       "Spine", "Pelvis", "Head/Neck", "CTA/Vascular", "Kidney", "Pancreas",
       "Trauma", "Subdural", "Stroke", "Body", "Extremity/MSK", "Temporal Bone",
       "Sinus", "Angio Bone Sub", "Lung HRCT", "Orbits", "CTA Head/Neck",
       "Arterial", "Venous", "Colon/Bowel", "Adrenal", "Gallbladder",
       "Skin/Subcutaneous", "Cardiac" >>

\* the preset names an event carries: three of the table and one that is not
PresetInputs == { "Lung", "Stroke", "Brain", "Custom" }

cached_frame == <<cached_pixel_array, cached_rescale_slope, cached_rescale_intercept>>
zoom_pan == <<zoom_level, pan_x, pan_y>>
scan_state == <<directory_path, scan_results, is_loading, metadata_lock, scan_locals>>

\* self._process_image() at the end of a handler that has set the window
Rerender(center, width) ==
    \E image \in ProcessImage(cached_pixel_array, cached_rescale_slope,
                              cached_rescale_intercept, center, width,
                              current_image_base64) :
        current_image_base64' = image

\* update_window_width without line 718
update_window_width_keeps_preset(value) ==
    IF Float(value) = ValueError
    THEN UNCHANGED vars
    ELSE /\ window_width' = Float(value).v
         /\ Rerender(window_center, Float(value).v)
         /\ UNCHANGED <<dialog, background, scan_state, error_message, cached_frame,
                        window_center, selected_preset, zoom_pan, load_pending>>

\* lines 714-721
update_window_width(value) ==
    IF Float(value) = ValueError
    THEN UNCHANGED vars
    ELSE /\ window_width' = Float(value).v
         /\ selected_preset' = ""
         /\ Rerender(window_center, Float(value).v)
         /\ UNCHANGED <<dialog, background, scan_state, error_message, cached_frame, window_center,
                        zoom_pan, load_pending>>

\* lines 723-730
update_window_center(value) ==
    IF Float(value) = ValueError
    THEN UNCHANGED vars
    ELSE /\ window_center' = Float(value).v
         /\ selected_preset' = ""
         /\ Rerender(Float(value).v, window_width)
         /\ UNCHANGED <<dialog, background, scan_state, error_message, cached_frame, window_width,
                        zoom_pan, load_pending>>

\* apply_preset taking the pair of the table as (width, center)
apply_preset_swapped(preset_name) ==
    IF preset_name \in DOMAIN Presets
    THEN /\ window_center' = Presets[preset_name][2]
         /\ window_width' = Presets[preset_name][1]
         /\ selected_preset' = preset_name
         /\ Rerender(Presets[preset_name][2], Presets[preset_name][1])
         /\ UNCHANGED <<dialog, background, scan_state, error_message, cached_frame, zoom_pan,
                        load_pending>>
    ELSE UNCHANGED vars

\* lines 782-823
apply_preset(preset_name) ==
    IF preset_name \in DOMAIN Presets
    THEN /\ window_center' = Presets[preset_name][1]
         /\ window_width' = Presets[preset_name][2]
         /\ selected_preset' = preset_name
         /\ Rerender(Presets[preset_name][1], Presets[preset_name][2])
         /\ UNCHANGED <<dialog, background, scan_state, error_message, cached_frame, zoom_pan,
                        load_pending>>
    ELSE UNCHANGED vars

\* lines 825-832, with reset_zoom, lines 769-774
reset_view ==
    /\ zoom_level' = 100
    /\ pan_x' = 0
    /\ pan_y' = 0
    /\ window_center' = 40
    /\ window_width' = 400
    /\ selected_preset' = ""
    /\ Rerender(40, 400)
    /\ UNCHANGED <<dialog, background, scan_state, error_message, cached_frame, load_pending>>

-----------------------------------------------------------------------------
(* Moving through the slices, lines 732-743, and leaving them, lines 547-560 *)

\* total_images, lines 384-386
total_images == Len(dicom_files)

\* lines 732-736; the returned load_selected_image is queued
next_image ==
    /\ Outstanding < MaxPendingLoads
    /\ current_index < total_images - 1
    /\ current_index' = current_index + 1
    /\ load_pending' = load_pending + 1
    /\ UNCHANGED <<dialog, directory_path, dicom_files, file_names, has_loaded, workflow_step,
                   is_loading, error_message, image_state, metadata_lock,
                   scan_locals, view_settings, background>>

\* lines 738-742
prev_image ==
    /\ Outstanding < MaxPendingLoads
    /\ current_index > 0
    /\ current_index' = current_index - 1
    /\ load_pending' = load_pending + 1
    /\ UNCHANGED <<dialog, directory_path, dicom_files, file_names, has_loaded, workflow_step,
                   is_loading, error_message, image_state, metadata_lock,
                   scan_locals, view_settings, background>>

\* lines 547-560; queued is the number of open_directory_dialog events the
\* handler leaves in the event queue
ResetScan(queued) ==
    /\ error_message' = NoMessage
    /\ has_loaded' = FALSE
    /\ workflow_step' = "select"
    /\ dicom_files' = <<>>
    /\ file_names' = <<>>
    /\ current_index' = 0
    /\ current_image_base64' = Placeholder
    /\ metadata_unlocked' = FALSE
    /\ metadata_password_input' = ""
    /\ metadata_password_error' = ""
    /\ dialog_pending' = dialog_pending + queued
    /\ UNCHANGED <<show_metadata, directory_browser_visible, suppress_directory_dialog,
                   directory_path, is_loading, cached_frame, scan_locals,
                   view_settings, background, load_pending>>

\* reset_scan where the directory browser it opens is not followed
reset_scan == ResetScan(0)

-----------------------------------------------------------------------------
(* The viewer: the state a scan of the directory /study leaves, a load of   *)
(* the first slice queued (lines 520-530), and the events of the viewer    *)

\* path.iterdir() of /study: two files, instance numbers 1 and 2
StudyListing ==
    << Entry(<<66>>, [kind |-> "file", ok |-> TRUE,
                      ds |-> Hdr(NoSeries, None, None, None, Num(2))]),
       Entry(<<65>>, [kind |-> "file", ok |-> TRUE,
                      ds |-> Hdr(NoSeries, None, None, None, Num(1))]) >>

InitView ==
    /\ directory_path = "/study"
    /\ workflow_step = "list"
    /\ dicom_files = ValidDicoms(SortableDicoms("/study", StudyListing))
    /\ file_names = ValidNames(SortableDicoms("/study", StudyListing))
    /\ current_index = 0
    /\ is_loading = FALSE
    /\ error_message = NoMessage
    /\ has_loaded = TRUE
    /\ current_image_base64 = Placeholder
    /\ metadata_unlocked = FALSE
    /\ metadata_password_input = ""
    /\ metadata_password_error = ""
    /\ cached_pixel_array = None
    /\ cached_rescale_slope = 1
    /\ cached_rescale_intercept = 0
    /\ window_center = 40
    /\ window_width = 400
    /\ selected_preset = ""
    /\ zoom_level = 100
    /\ pan_x = 0
    /\ pan_y = 0
    /\ scan_pc = "idle"
    /\ scan_branch = "none"
    /\ scan_dir = {}
    /\ sortable_dicoms = <<>>
    /\ load_pending = 1
    /\ scan_tasks = <<>>
    /\ load_tasks = <<>>
    /\ directory_browser_visible = FALSE
    /\ suppress_directory_dialog = FALSE
    /\ dialog_pending = 0
    /\ show_metadata = TRUE

NextView ==
    \/ LoadSkip
    \/ LoadSuccess
    \/ LoadMetadataFailure
    \/ LoadFailure
    \/ \E value \in WidthInputs : update_window_width(value)
    \/ \E value \in CenterInputs : update_window_center(value)
    \/ \E preset_name \in PresetInputs : apply_preset(preset_name)
    \/ reset_view
    \/ next_image
    \/ prev_image
    \/ reset_scan

SpecView == InitView /\ [][NextView]_vars

-----------------------------------------------------------------------------
(* A session whose background tasks overlap.  scan_directory and            *)
(* load_selected_image are rx.event(background=True), lines 479 and 581:    *)
(* every call is a task of its own, nothing keeps a second one from         *)
(* starting while the first runs, and between two "async with self" blocks  *)
(* of a task the blocks of the other tasks and whole event handlers run.    *)

\* path.iterdir() in a session: /mr holds the one file A, /data holds nothing,
\* /ct the files of /study
Iterdir(path) ==
    CASE path = "/mr" ->
           << Entry(<<65>>, [kind |-> "file", ok |-> TRUE,
                             ds |-> Hdr(NoSeries, None, None, None, Num(1))]) >>
      [] path = "/data" -> <<>>
      [] OTHER -> StudyListing

\* the tasks in flight once task i has ended
Without(tasks, i) == SubSeq(tasks, 1, i - 1) \o SubSeq(tasks, i + 1, Len(tasks))

\* lines 482-492: the first block of a new task
ScanTaskStart ==
    /\ Outstanding < MaxPendingLoads
    /\ scan_tasks' = Append(scan_tasks, [pc |-> "probe", branch |-> "none",
                                         items |-> <<>>])
    /\ is_loading' = TRUE
    /\ error_message' = NoMessage
    /\ has_loaded' = FALSE
    /\ workflow_step' = "select"
    /\ dicom_files' = <<>>
    /\ file_names' = <<>>
    /\ current_image_base64' = Placeholder
    /\ metadata_unlocked' = FALSE
    /\ metadata_password_input' = ""
    /\ metadata_password_error' = ""
    /\ UNCHANGED <<dialog, view_settings, directory_path, current_index, cached_frame,
                   scan_locals, load_pending, load_tasks>>

\* lines 494-521, for each path of the session: the path of the try block a
\* task takes there and, on the path of success, its sortable_dicoms
Found ==
    [ path \in Paths \cup SeriesPaths |->
        LET items == SortableDicoms(path, Iterdir(path))
            branch ==
              CASE path = "" -> "empty_path"
                [] path # "" /\ PathKind(path) \in {"missing", "notdir"} -> "not_found"
                [] path # "" /\ PathKind(path) = "denied" -> "permission"
                [] path # "" /\ PathKind(path) = "ioerror" -> "os_error"
                [] OTHER -> IF items = <<>> THEN "no_valid" ELSE "success"
        IN  [pc |-> "publish", branch |-> branch,
             items |-> IF branch = "success" THEN items ELSE <<>>] ]

\* outside the lock the task reads self.directory_path and the file system
ScanTaskProbe(i) ==
    /\ scan_tasks[i].pc = "probe"
    /\ scan_tasks' = [scan_tasks EXCEPT ![i] = Found[directory_path]]
    /\ UNCHANGED <<dialog, view_settings, directory_path, scan_results, is_loading,
                   error_message, image_state, metadata_lock, scan_locals,
                   load_pending, load_tasks>>

\* lines 495-497, 501-503, 518-519, 524-529, 533-538, 541-542: the block that
\* publishes what the task found
ScanTaskPublish(i) ==
    /\ scan_tasks[i].pc = "publish"
    /\ scan_tasks' = [scan_tasks EXCEPT ![i].pc = "finally"]
    /\ IF scan_tasks[i].branch = "success"
       THEN /\ dicom_files' = ValidDicoms(scan_tasks[i].items)
            /\ file_names' = ValidNames(scan_tasks[i].items)
            /\ has_loaded' = TRUE
            /\ current_index' = 0
            /\ workflow_step' = "list"
            /\ UNCHANGED <<error_message, is_loading>>
       ELSE /\ error_message' =
                 CASE scan_tasks[i].branch = "empty_path" -> MsgEmptyPath
                   [] scan_tasks[i].branch = "not_found" -> MsgNotFound(directory_path)
                   [] scan_tasks[i].branch = "permission" -> MsgPermission
                   [] scan_tasks[i].branch = "os_error" -> MsgAccess("OSError")
                   [] OTHER -> MsgNoValid
            /\ is_loading' = IF scan_tasks[i].branch \in {"empty_path", "not_found"}
                             THEN FALSE ELSE is_loading
            /\ UNCHANGED scan_results
    /\ UNCHANGED <<dialog, view_settings, directory_path, image_state, metadata_lock,
                   scan_locals, load_pending, load_tasks>>

\* the end of the task without the block of lines 544-545
ScanTaskFinallyKeepsLoading(i) ==
    /\ scan_tasks[i].pc = "finally"
    /\ scan_tasks' = Without(scan_tasks, i)
    /\ load_pending' = IF ScanReturn(scan_tasks[i].branch) = "load_selected_image"
                       THEN load_pending + 1 ELSE load_pending
    /\ UNCHANGED <<dialog, view_settings, directory_path, scan_results, error_message,
                   is_loading, image_state, metadata_lock, scan_locals, load_tasks>>

\* lines 543-545, then the returned event is queued
ScanTaskFinally(i) ==
    /\ scan_tasks[i].pc = "finally"
    /\ scan_tasks' = Without(scan_tasks, i)
    /\ is_loading' = FALSE
    /\ load_pending' = IF ScanReturn(scan_tasks[i].branch) = "load_selected_image"
                       THEN load_pending + 1 ELSE load_pending
    /\ UNCHANGED <<dialog, view_settings, directory_path, scan_results, error_message,
                   image_state, metadata_lock, scan_locals, load_tasks>>

\* lines 584-588: outside the lock the task picks dicom_files[current_index]
\* and reads it; what it read stays with the task
LoadTaskStart ==
    /\ load_pending > 0
    /\ dicom_files # <<>> /\ current_index < Len(dicom_files)
    /\ load_pending' = load_pending - 1
    /\ \E ds \in DcmRead(dicom_files[current_index + 1]) :
         load_tasks' = Append(load_tasks, ds)
    /\ UNCHANGED <<dialog, view_settings, directory_path, scan_results, is_loading,
                   error_message, image_state, metadata_lock, scan_locals,
                   scan_tasks>>

\* lines 589-594, or 597-598 when the file or its header raised
LoadTaskApply(i) ==
    /\ i \in DOMAIN load_tasks
    /\ load_tasks' = Without(load_tasks, i)
    /\ IF load_tasks[i].k = "error"
       THEN /\ error_message' = FormatDicomError(load_tasks[i].text)
            /\ UNCHANGED image_state
       ELSE /\ cached_pixel_array' = load_tasks[i].pixel_array
            /\ cached_rescale_slope' = RescaleSlopeOf(load_tasks[i])
            /\ cached_rescale_intercept' = RescaleInterceptOf(load_tasks[i])
            /\ IF load_tasks[i].metadata.k = "error"
               THEN /\ error_message' = FormatDicomError(load_tasks[i].metadata.text)
                    /\ UNCHANGED current_image_base64
               ELSE /\ \E image \in ProcessImage(load_tasks[i].pixel_array,
                                                 RescaleSlopeOf(load_tasks[i]),
                                                 RescaleInterceptOf(load_tasks[i]),
                                                 window_center, window_width,
                                                 current_image_base64) :
                         current_image_base64' = image
                    /\ UNCHANGED error_message
    /\ UNCHANGED <<dialog, view_settings, directory_path, scan_results, is_loading,
                   metadata_lock, scan_locals, load_pending, scan_tasks>>

\* lines 744-752, on the texts Float reads; int() of a whole number is itself
set_slice_index(value) ==
    /\ Outstanding < MaxPendingLoads
    /\ IF Float(value) # ValueError /\ 0 <= Float(value).v
          /\ Float(value).v < total_images
       THEN /\ current_index' = Float(value).v
            /\ load_pending' = load_pending + 1
            /\ UNCHANGED <<dialog, directory_path, dicom_files, file_names, has_loaded,
                           workflow_step, is_loading, error_message, image_state,
                           metadata_lock, scan_locals, view_settings, background>>
       ELSE UNCHANGED vars

\* handle_file_selection accepting the index len(dicom_files)
handle_file_selection_inclusive(index) ==
    /\ Outstanding < MaxPendingLoads
    /\ IF 0 <= index /\ index <= Len(dicom_files)
       THEN /\ current_index' = index
            /\ load_pending' = load_pending + 1
            /\ UNCHANGED <<dialog, directory_path, dicom_files, file_names, has_loaded,
                           workflow_step, is_loading, error_message, image_state,
                           metadata_lock, scan_locals, view_settings, background>>
       ELSE UNCHANGED vars

\* lines 574-579
handle_file_selection(index) ==
    /\ Outstanding < MaxPendingLoads
    /\ IF 0 <= index /\ index < Len(dicom_files)
       THEN /\ current_index' = index
            /\ load_pending' = load_pending + 1
            /\ UNCHANGED <<dialog, directory_path, dicom_files, file_names, has_loaded,
                           workflow_step, is_loading, error_message, image_state,
                           metadata_lock, scan_locals, view_settings, background>>
       ELSE UNCHANGED vars

\* lines 562-566
open_viewer ==
    /\ workflow_step' = "viewer"
    /\ UNCHANGED <<dialog, directory_path, dicom_files, file_names, has_loaded, current_index,
                   is_loading, error_message, image_state, metadata_lock,
                   scan_locals, view_settings, background, load_pending>>

\* back_to_results without the test of has_loaded
back_to_results_always_list ==
    /\ workflow_step' = "list"
    /\ UNCHANGED <<dialog, directory_path, dicom_files, file_names, has_loaded, current_index,
                   is_loading, error_message, image_state, metadata_lock,
                   scan_locals, view_settings, background, load_pending>>

\* lines 568-572
back_to_results ==
    /\ workflow_step' = IF has_loaded THEN "list" ELSE "select"
    /\ UNCHANGED <<dialog, directory_path, dicom_files, file_names, has_loaded, current_index,
                   is_loading, error_message, image_state, metadata_lock,
                   scan_locals, view_settings, background, load_pending>>

NextSession ==
    \/ \E path \in SeriesPaths : set_directory(path)
    \/ ScanTaskStart
    \/ \E i \in DOMAIN scan_tasks : ScanTaskProbe(i)
    \/ \E i \in DOMAIN scan_tasks : ScanTaskPublish(i)
    \/ \E i \in DOMAIN scan_tasks : ScanTaskFinally(i)
    \/ LoadSkip
    \/ LoadTaskStart
    \/ \E i \in DOMAIN load_tasks : LoadTaskApply(i)
    \/ next_image
    \/ prev_image
    \/ \E value \in { <<48>>, <<49>>, <<50>>, <<45, 49>>, <<120>> } :
         set_slice_index(value)   \* "0", "1", "2", "-1", "x"
    \/ \E index \in -1..2 : handle_file_selection(index)
    \/ \E preset_name \in { "Lung", "Custom" } : apply_preset(preset_name)
    \/ reset_scan
    \/ open_viewer
    \/ back_to_results

SpecSession == Init /\ [][NextSession]_vars

\* A user who picks directories and scans them, and nothing else: a path for
\* each way a scan can end.  asyncio runs a task that can take its next step,
\* and the event queue runs a load_selected_image event that waits in it.
NextRescan ==
    \/ \E path \in { "", "/missing", "/locked", "/ioerr", "/data", "/ct" } :
         set_directory(path)
    \/ ScanTaskStart
    \/ \E i \in DOMAIN scan_tasks : ScanTaskProbe(i)
    \/ \E i \in DOMAIN scan_tasks : ScanTaskPublish(i)
    \/ \E i \in DOMAIN scan_tasks : ScanTaskFinally(i)
    \/ LoadSkip
    \/ LoadTaskStart
    \/ \E i \in DOMAIN load_tasks : LoadTaskApply(i)

SpecRescan ==
    /\ Init
    /\ [][NextRescan]_vars
    /\ WF_vars(\E i \in DOMAIN scan_tasks :
                 ScanTaskProbe(i) \/ ScanTaskPublish(i) \/ ScanTaskFinally(i))
    /\ WF_vars(LoadSkip \/ LoadTaskStart)
    /\ WF_vars(\E i \in DOMAIN load_tasks : LoadTaskApply(i))

-----------------------------------------------------------------------------
(* Zoom and pan, lines 754-780, beside the loads and the window presets.    *)
(* zoom_level is kept in hundredths: 0.25 is 25 and 4.0 is 400.            *)

\* pan_x and pan_y stay within -MaxPan..MaxPan
MaxPan == 1

\* set_zoom with an upper limit of 4.5 in place of the 4.0 of line 757
set_zoom_wide(value) ==
    /\ zoom_level' = (IF 25 > (IF value < 450 THEN value ELSE 450)
                      THEN 25
                      ELSE (IF value < 450 THEN value ELSE 450))
    /\ UNCHANGED <<dialog, background, scan_state, error_message, image_state,
                   window_center, window_width, selected_preset, pan_x, pan_y,
                   load_pending>>

\* lines 754-757, value in hundredths
set_zoom(value) ==
    /\ zoom_level' = (IF 25 > (IF value < 400 THEN value ELSE 400)
                      THEN 25
                      ELSE (IF value < 400 THEN value ELSE 400))
    /\ UNCHANGED <<dialog, background, scan_state, error_message, image_state,
                   window_center, window_width, selected_preset, pan_x, pan_y,
                   load_pending>>

\* lines 759-762
zoom_in == set_zoom(zoom_level + 25)

\* lines 764-767
zoom_out == set_zoom(zoom_level - 25)

\* lines 769-774
reset_zoom ==
    /\ zoom_level' = 100
    /\ pan_x' = 0
    /\ pan_y' = 0
    /\ UNCHANGED <<dialog, background, scan_state, error_message, image_state,
                   window_center, window_width, selected_preset, load_pending>>

\* lines 776-780
pan_control(dx, dy) ==
    /\ pan_x + dx \in -MaxPan..MaxPan
    /\ pan_y + dy \in -MaxPan..MaxPan
    /\ pan_x' = pan_x + dx
    /\ pan_y' = pan_y + dy
    /\ UNCHANGED <<dialog, background, scan_state, error_message, image_state,
                   window_center, window_width, selected_preset, zoom_level,
                   load_pending>>

NextZoom ==
    \/ LoadSuccess
    \/ next_image
    \/ prev_image
    \/ \E preset_name \in PresetInputs : apply_preset(preset_name)
    \/ reset_view
    \/ \E value \in { 0, 1000 } : set_zoom(value)
    \/ zoom_in
    \/ zoom_out
    \/ reset_zoom
    \/ \E d \in { -1, 1 } : pan_control(d, -d)

SpecZoom == InitView /\ [][NextZoom]_vars

\* the zoom events on and off the steps of 0.25, with a preset so that
\* reset_view has a window to reset and a slice to draw again
NextZoomLevels ==
    \/ LoadSuccess
    \/ next_image
    \/ apply_preset("Lung")
    \/ reset_view
    \/ \E value \in { -50, 0, 30, 130, 390, 1000 } : set_zoom(value)
    \/ zoom_in
    \/ zoom_out
    \/ reset_zoom
    \/ \E d \in { -1, 1 } : pan_control(d, 0)

SpecZoomLevels == InitView /\ [][NextZoomLevels]_vars

-----------------------------------------------------------------------------
(* One scan at a time: the Scan button is pressed again only after the task *)
(* of the previous press has ended.  Every path of scan_directory is taken, *)
(* and reset_scan and the queued loads fall between the blocks of the task. *)

NextOneScan ==
    \/ \E path \in { "", "/missing", "/locked", "/ioerr", "/data", "/ct" } :
         set_directory(path)
    \/ scan_tasks = <<>> /\ ScanTaskStart
    \/ \E i \in DOMAIN scan_tasks : ScanTaskProbe(i)
    \/ \E i \in DOMAIN scan_tasks : ScanTaskPublish(i)
    \/ \E i \in DOMAIN scan_tasks : ScanTaskFinally(i)
    \/ LoadSkip
    \/ LoadTaskStart
    \/ \E i \in DOMAIN load_tasks : LoadTaskApply(i)
    \/ reset_scan

SpecOneScan ==
    /\ Init
    /\ [][NextOneScan]_vars
    /\ WF_vars(\E i \in DOMAIN scan_tasks :
                 ScanTaskProbe(i) \/ ScanTaskPublish(i) \/ ScanTaskFinally(i))
    /\ WF_vars(LoadSkip \/ LoadTaskStart)
    /\ WF_vars(\E i \in DOMAIN load_tasks : LoadTaskApply(i))

-----------------------------------------------------------------------------
(* The directory browser, lines 439-476, and the page that sends its events, *)
(* dicom_viewer.py lines 30-46, 110-120 and 196-199                          *)

\* lines 439-441: mouse-down on the Scan button, which the page disables while
\* the browser is open (dicom_viewer.py lines 42-44)
suppress_directory_dialog_once ==
    /\ ~directory_browser_visible
    /\ suppress_directory_dialog' = TRUE
    /\ UNCHANGED <<show_metadata, directory_browser_visible, dialog_pending, background,
                   view_settings, directory_path, scan_results, is_loading,
                   error_message, image_state, metadata_lock, scan_locals,
                   load_pending>>

\* lines 443-452.  chained = 1 for the event reset_scan returned, 0 for the
\* focus of the path input (dicom_viewer.py line 34)
open_directory_dialog(chained) ==
    /\ dialog_pending >= chained
    /\ dialog_pending' = dialog_pending - chained
    /\ IF suppress_directory_dialog
       THEN suppress_directory_dialog' = FALSE /\ UNCHANGED directory_browser_visible
       ELSE directory_browser_visible' = TRUE /\ UNCHANGED suppress_directory_dialog
    /\ UNCHANGED <<show_metadata, background, view_settings, directory_path, scan_results,
                   is_loading, error_message, image_state, metadata_lock,
                   scan_locals, load_pending>>

\* lines 454-456
close_directory_dialog ==
    /\ directory_browser_visible
    /\ directory_browser_visible' = FALSE
    /\ UNCHANGED <<show_metadata, suppress_directory_dialog, dialog_pending, background,
                   view_settings, directory_path, scan_results, is_loading,
                   error_message, image_state, metadata_lock, scan_locals,
                   load_pending>>

\* lines 472-477: directory_browser_path is a directory that exists
\* (_normalize_directory_path, lines 411-416), here /ct or /data
select_current_directory(path) ==
    /\ directory_browser_visible
    /\ directory_path' = path
    /\ directory_browser_visible' = FALSE
    /\ error_message' = NoMessage
    /\ UNCHANGED <<show_metadata, suppress_directory_dialog, dialog_pending, background,
                   view_settings, scan_results, is_loading, image_state,
                   metadata_lock, scan_locals, load_pending>>

\* the Scan button is pressed with the mouse (mouse-down, then click) or with
\* the keyboard (click only); "Change Directory" is on the page while the
\* result list is (dicom_viewer.py lines 173-199 and 226-230)
NextDialog ==
    \/ suppress_directory_dialog_once
    \/ ~directory_browser_visible /\ scan_tasks = <<>> /\ ScanTaskStart
    \/ \E i \in DOMAIN scan_tasks : ScanTaskProbe(i)
    \/ \E i \in DOMAIN scan_tasks : ScanTaskPublish(i)
    \/ \E i \in DOMAIN scan_tasks : ScanTaskFinally(i)
    \/ LoadSkip
    \/ LoadTaskStart
    \/ \E i \in DOMAIN load_tasks : LoadTaskApply(i)
    \/ \E chained \in { 0, 1 } : open_directory_dialog(chained)
    \/ close_directory_dialog
    \/ \E path \in { "/ct", "/data" } : select_current_directory(path)
    \/ has_loaded /\ ~is_loading /\ dialog_pending < MaxPendingLoads /\ ResetScan(1)

SpecDialog == Init /\ [][NextDialog]_vars

-----------------------------------------------------------------------------
(* The metadata lock, lines 626-649 *)

\* line 338: _metadata_password, with DICOM_METADATA_PASSWORD not set
MetadataPassword == "dicom"

\* line 643
MsgInvalidPassword == "Invalid password."

\* lines 627-628
toggle_metadata ==
    /\ show_metadata' = ~show_metadata
    /\ UNCHANGED <<directory_browser_visible, suppress_directory_dialog,
                   dialog_pending, background, view_settings, directory_path,
                   scan_results, is_loading, error_message, image_state,
                   metadata_lock, scan_locals, load_pending>>

\* lines 630-634
update_metadata_password(value) ==
    /\ metadata_password_input' = value
    /\ metadata_password_error' =
         IF metadata_password_error # "" THEN "" ELSE metadata_password_error
    /\ UNCHANGED <<dialog, background, view_settings, directory_path,
                   scan_results, is_loading, error_message, image_state,
                   metadata_unlocked, scan_locals, load_pending>>

\* lines 636-643 with the comparison of line 637 left out
unlock_metadata_unchecked ==
    /\ metadata_unlocked' = TRUE
    /\ metadata_password_input' = ""
    /\ metadata_password_error' = ""
    /\ UNCHANGED <<dialog, background, view_settings, directory_path,
                   scan_results, is_loading, error_message, image_state,
                   scan_locals, load_pending>>

\* lines 636-643
unlock_metadata ==
    /\ IF metadata_password_input = MetadataPassword
       THEN /\ metadata_unlocked' = TRUE
            /\ metadata_password_input' = ""
            /\ metadata_password_error' = ""
       ELSE /\ metadata_password_error' = MsgInvalidPassword
            /\ UNCHANGED <<metadata_unlocked, metadata_password_input>>
    /\ UNCHANGED <<dialog, background, view_settings, directory_path,
                   scan_results, is_loading, error_message, image_state,
                   scan_locals, load_pending>>

\* lines 645-649
lock_metadata ==
    /\ metadata_unlocked' = FALSE
    /\ metadata_password_input' = ""
    /\ metadata_password_error' = ""
    /\ UNCHANGED <<dialog, background, view_settings, directory_path,
                   scan_results, is_loading, error_message, image_state,
                   scan_locals, load_pending>>

\* one scan at a time over a directory with slices and one that is missing,
\* with the events of the metadata panel between the blocks of the tasks
NextMetadata ==
    \/ \E path \in { "/missing", "/ct" } : set_directory(path)
    \/ scan_tasks = <<>> /\ ScanTaskStart
    \/ \E i \in DOMAIN scan_tasks : ScanTaskProbe(i)
    \/ \E i \in DOMAIN scan_tasks : ScanTaskPublish(i)
    \/ \E i \in DOMAIN scan_tasks : ScanTaskFinally(i)
    \/ LoadSkip
    \/ LoadTaskStart
    \/ \E i \in DOMAIN load_tasks : LoadTaskApply(i)
    \/ reset_scan
    \/ toggle_metadata
    \/ \E value \in { MetadataPassword, "guess" } : update_metadata_password(value)
    \/ unlock_metadata
    \/ lock_metadata

SpecMetadata == Init /\ [][NextMetadata]_vars

\* src/dicom_viewer_reflex/components/viewer.py lines 25-69: the rows of
\* patient and study values are on the page while show_metadata holds, and
\* nothing else is read to decide it
metadata_panel == show_metadata

-----------------------------------------------------------------------------
(* What the claims read *)

\* The scan has published its result and its locals are still alive
ScanSucceeded == scan_pc = "finally" /\ scan_branch = "success"

\* The directory entry behind a base name
EntryNamed(n) == CHOOSE e \in scan_dir : e.name = n
HeaderAt(i) == EntryNamed(file_names[i]).ds
KeyAt(i) == sortable_dicoms[i].key
Decodable == { e \in scan_dir : e.kind = "file" /\ e.ok }
Positions == 1..Len(dicom_files)

\* Tuple order on keys, written out from the key's components
KeyBefore(a, b) ==
    \/ StrLT(a.series, b.series)
    \/ a.series = b.series /\ FloatLT(a.primary, b.primary)
    \/ a.series = b.series /\ a.primary = b.primary
       /\ FloatLT(a.secondary, b.secondary)
    \/ a.series = b.series /\ a.primary = b.primary /\ a.secondary = b.secondary
       /\ StrLT(a.lname, b.lname)

-----------------------------------------------------------------------------
\* C1: after a scan that finds a decodable file, dicom_files holds exactly the
\* regular files of the directory whose header decoded, each once, in ascending
\* order of (seriesUID, primaryPosition, secondaryPosition, lowercase name).
C1_ScanListsDecodableFilesInKeyOrder ==
    ScanSucceeded =>
      /\ Len(dicom_files) = Cardinality(Decodable)
      /\ Len(file_names) = Len(dicom_files)
      /\ { file_names[i] : i \in Positions } = { e.name : e \in Decodable }
      /\ \A i \in Positions : dicom_files[i][2] = file_names[i]
      /\ \A i \in Positions : \A j \in Positions :
           i < j => ~ KeyBefore(DicomSortKey(HeaderAt(j), file_names[j]),
                                DicomSortKey(HeaderAt(i), file_names[i]))

\* Three files come out in an order that is not the order of their names, next
\* to an entry that is left out
C1_Witness ==
    /\ ScanSucceeded
    /\ Len(dicom_files) = 2
    /\ Cardinality(scan_dir) = 3
    /\ StrLT(file_names[2], file_names[1])
    /\ KeyBefore(KeyAt(1), KeyAt(2))

-----------------------------------------------------------------------------
(* The header fields as the claims name them *)

\* A position with at least 3 components and a numeric Z, an orientation with at
\* least 6 numeric components
PositionUsable(ds) ==
    ds.pos.k = "seq" /\ Len(ds.pos.v) >= 3 /\ ds.pos.v[3].k = "num"
OrientationUsable(ds) ==
    ds.iop.k = "seq" /\ Len(ds.iop.v) >= 6 /\ \A i \in 1..6 : ds.iop.v[i].k = "num"
RowCosines(ds) == << ds.iop.v[1].v, ds.iop.v[2].v, ds.iop.v[3].v >>
ColumnCosines(ds) == << ds.iop.v[4].v, ds.iop.v[5].v, ds.iop.v[6].v >>
PositionVector(ds) == << ds.pos.v[1].v, ds.pos.v[2].v, ds.pos.v[3].v >>
SliceNormal(ds) == Cross(RowCosines(ds), ColumnCosines(ds))
HasNormal(ds) ==
    /\ PositionUsable(ds) /\ \A i \in 1..3 : ds.pos.v[i].k = "num"
    /\ OrientationUsable(ds) /\ SliceNormal(ds) # <<0, 0, 0>>
HasSliceLocation(ds) == ds.sl.k = "num"
HasInstanceNumber(ds) == ds.inst.k = "num"

\* primaryPosition as the data model of the specification words it
StatedPrimary(ds) ==
    IF HasNormal(ds) THEN Num(Dot(SliceNormal(ds), PositionVector(ds)))
    ELSE IF PositionUsable(ds) THEN Num(ds.pos.v[3].v)
    ELSE IF HasSliceLocation(ds) THEN Num(ds.sl.v)
    ELSE IF HasInstanceNumber(ds) THEN Num(ds.inst.v)
    ELSE Inf

-----------------------------------------------------------------------------
\* C2: primaryPosition is the projection of the position on the slice normal
\* when position, orientation and a non-zero normal are there, else the Z of the
\* position, else sliceLocation, else instanceNumber, else +infinity; within one
\* series the record with the smaller primaryPosition comes first (Z=1 before
\* Z=5, a projection of -2 before one of 3).
C2_PrimaryPositionFallbackChain ==
    ScanSucceeded =>
      /\ \A i \in Positions : KeyAt(i).primary = StatedPrimary(HeaderAt(i))
      /\ \A i \in Positions : \A j \in Positions :
           ( /\ HeaderAt(i).series = HeaderAt(j).series
             /\ FloatLT(StatedPrimary(HeaderAt(i)), StatedPrimary(HeaderAt(j))) )
           => i < j

\* The record projecting to -2 (raw Z 7) stands before the one projecting to 3
\* (raw Z 1)
C2_Witness ==
    /\ ScanSucceeded
    /\ Len(dicom_files) = 2
    /\ HasNormal(HeaderAt(1)) /\ HasNormal(HeaderAt(2))
    /\ KeyAt(1).primary = Num(-2) /\ KeyAt(2).primary = Num(3)
    /\ HeaderAt(1).pos.v[3].v > HeaderAt(2).pos.v[3].v

-----------------------------------------------------------------------------
\* C3 as stated: a record with neither a usable position nor a sliceLocation gets
\* primaryPosition +infinity, whatever its instanceNumber, and sorts after every
\* record of its series that has a finite position or sliceLocation.
C3_Stated_NoPositionMeansInfinity ==
    ScanSucceeded =>
      \A i \in Positions :
        (~ PositionUsable(HeaderAt(i)) /\ ~ HasSliceLocation(HeaderAt(i)))
        => /\ KeyAt(i).primary = Inf
           /\ \A j \in Positions :
                ( /\ HeaderAt(j).series = HeaderAt(i).series
                  /\ (PositionUsable(HeaderAt(j)) \/ HasSliceLocation(HeaderAt(j))) )
                => j < i

\* C3 amended: such a record gets its instanceNumber as primaryPosition when it
\* has a numeric one, and +infinity only when it has none; a record with
\* primaryPosition +infinity sorts after every record of its series that has a
\* finite position, sliceLocation or instanceNumber.
C3_NoPositionFallsBackToInstance ==
    ScanSucceeded =>
      \A i \in Positions :
        (~ PositionUsable(HeaderAt(i)) /\ ~ HasSliceLocation(HeaderAt(i)))
        => /\ HasInstanceNumber(HeaderAt(i))
                => KeyAt(i).primary = Num(HeaderAt(i).inst.v)
           /\ ~ HasInstanceNumber(HeaderAt(i)) =>
                /\ KeyAt(i).primary = Inf
                /\ \A j \in Positions :
                     ( /\ HeaderAt(j).series = HeaderAt(i).series
                       /\ \/ PositionUsable(HeaderAt(j))
                          \/ HasSliceLocation(HeaderAt(j))
                          \/ HasInstanceNumber(HeaderAt(j)) )
                     => j < i

\* A record with only instanceNumber 1 stands before a record at Z=5
C3_Witness ==
    /\ ScanSucceeded
    /\ Len(dicom_files) = 2
    /\ HeaderAt(1).series = HeaderAt(2).series
    /\ ~ PositionUsable(HeaderAt(1)) /\ ~ HasSliceLocation(HeaderAt(1))
    /\ HasInstanceNumber(HeaderAt(1))
    /\ PositionUsable(HeaderAt(2))
    /\ KeyAt(1).primary = Num(1) /\ KeyAt(2).primary = Num(5)

-----------------------------------------------------------------------------
\* A name with every capital ASCII letter replaced by its small letter
Lowercase(s) == [i \in 1..Len(s) |-> IF s[i] \in 65..90 THEN s[i] + 32 ELSE s[i]]

\* A record with none of position, orientation, sliceLocation, instanceNumber
IsEmptyRecord(ds) ==
    ds.pos.k = "none" /\ ds.iop.k = "none" /\ ds.sl.k = "none" /\ ds.inst.k = "none"

\* C4 as stated: in the output a record with none of the four fields comes after
\* every record that has at least one of them, and two such records are ordered
\* between themselves only by lowercase file name.
C4_Stated_EmptyRecordsLast ==
    ScanSucceeded =>
      \A i \in Positions : \A j \in Positions :
        /\ (IsEmptyRecord(HeaderAt(i)) /\ ~ IsEmptyRecord(HeaderAt(j))) => j < i
        /\ (IsEmptyRecord(HeaderAt(i)) /\ IsEmptyRecord(HeaderAt(j)) /\ i < j)
           => StrLT(Lowercase(file_names[i]), Lowercase(file_names[j]))
              \/ Lowercase(file_names[i]) = Lowercase(file_names[j])

\* C4 amended: within one series a record with none of the four fields comes
\* after every record that has a usable position, a sliceLocation or an
\* instanceNumber (an orientation alone does not count), and two such records of
\* one series are ordered between themselves by lowercase file name.
C4_EmptyRecordsLastInTheirSeries ==
    ScanSucceeded =>
      \A i \in Positions : \A j \in Positions :
        HeaderAt(i).series = HeaderAt(j).series =>
          /\ ( /\ IsEmptyRecord(HeaderAt(i))
               /\ \/ PositionUsable(HeaderAt(j))
                  \/ HasSliceLocation(HeaderAt(j))
                  \/ HasInstanceNumber(HeaderAt(j)) )
             => j < i
          /\ (IsEmptyRecord(HeaderAt(i)) /\ IsEmptyRecord(HeaderAt(j)) /\ i < j)
             => StrLT(Lowercase(file_names[i]), Lowercase(file_names[j]))
              \/ Lowercase(file_names[i]) = Lowercase(file_names[j])

\* Two empty records in lowercase-name order ("a" before "B"), after a record
\* with an instanceNumber whose name sorts last
C4_Witness ==
    /\ ScanSucceeded
    /\ Len(dicom_files) = 3
    /\ HasInstanceNumber(HeaderAt(1))
    /\ IsEmptyRecord(HeaderAt(2)) /\ IsEmptyRecord(HeaderAt(3))
    /\ HeaderAt(1).series = HeaderAt(2).series
    /\ HeaderAt(2).series = HeaderAt(3).series
    /\ file_names = << <<97>>, <<65>>, <<66>> >>

-----------------------------------------------------------------------------
\* secondaryPosition as the specification words it
StatedSecondary(ds) == IF HasInstanceNumber(ds) THEN Num(ds.inst.v) ELSE Inf

\* A record with no position data at all: only the instanceNumber can differ
NoPositionData(ds) == ds.pos.k = "none" /\ ds.iop.k = "none" /\ ds.sl.k = "none"

\* C5: secondaryPosition is the instanceNumber when present and numeric, else
\* +infinity; records of one series without position data that differ in
\* instanceNumber come out ascending by it; among records of equal seriesUID and
\* primaryPosition one without a numeric instanceNumber comes after every one
\* that has it.
C5_SecondaryPositionIsInstanceNumber ==
    ScanSucceeded =>
      /\ \A i \in Positions : KeyAt(i).secondary = StatedSecondary(HeaderAt(i))
      /\ \A i \in Positions : \A j \in Positions :
           ( /\ HeaderAt(i).series = HeaderAt(j).series
             /\ NoPositionData(HeaderAt(i)) /\ NoPositionData(HeaderAt(j))
             /\ HasInstanceNumber(HeaderAt(i)) /\ HasInstanceNumber(HeaderAt(j))
             /\ HeaderAt(i).inst.v < HeaderAt(j).inst.v )
           => i < j
      /\ \A i \in Positions : \A j \in Positions :
           ( /\ HeaderAt(i).series = HeaderAt(j).series
             /\ KeyAt(i).primary = KeyAt(j).primary
             /\ HasInstanceNumber(HeaderAt(i)) /\ ~ HasInstanceNumber(HeaderAt(j)) )
           => i < j

\* instanceNumber 1 before 2 against the order of the names, and at equal
\* primaryPosition the record with an instanceNumber before the one without
C5_Witness ==
    /\ ScanSucceeded
    /\ Len(dicom_files) = 3
    /\ KeyAt(1).primary = KeyAt(2).primary
    /\ HasInstanceNumber(HeaderAt(1)) /\ ~ HasInstanceNumber(HeaderAt(2))
    /\ StrLT(file_names[2], file_names[1])
    /\ NoPositionData(HeaderAt(3)) /\ KeyAt(3).secondary = Num(2)

-----------------------------------------------------------------------------
\* The order of two files as the two of them alone decide it: by key, and at
\* equal keys by path
BeforeAsAPair(i, j) ==
    \/ KeyBefore(KeyAt(i), KeyAt(j))
    \/ KeyAt(i) = KeyAt(j) /\ StrLT(file_names[i], file_names[j])

SeveralSeries == \E e \in Decodable : \E f \in Decodable : e.ds.series # f.ds.series

\* C6: a directory that mixes several series is scanned without error, the
\* records of each seriesUID ("" for a record without one) are contiguous in
\* dicom_files, and the relative order of two records of one series is decided
\* by these two records alone, whatever records of other series are present.
C6_SeriesAreContiguous ==
    /\ (scan_pc \in {"publish", "finally"} /\ SeveralSeries)
       => scan_branch = "success"
    /\ (ScanSucceeded /\ SeveralSeries) =>
         /\ has_loaded
         /\ Len(dicom_files) = Cardinality(Decodable)
         /\ \A i \in Positions : KeyAt(i).series = HeaderAt(i).series
         /\ \A i \in Positions : \A j \in Positions : \A m \in Positions :
              (i < j /\ j < m /\ HeaderAt(i).series = HeaderAt(m).series)
              => HeaderAt(j).series = HeaderAt(i).series
         /\ \A i \in Positions : \A j \in Positions :
              (i < j /\ HeaderAt(i).series = HeaderAt(j).series)
              => BeforeAsAPair(i, j)

\* Two records without a UID before one of series "1", although the instance
\* number and the name of that one are the smallest
C6_Witness ==
    /\ ScanSucceeded
    /\ Len(dicom_files) = 3
    /\ HeaderAt(1).series = NoSeries /\ HeaderAt(2).series = NoSeries
    /\ HeaderAt(3).series = SeriesOne
    /\ KeyAt(3).primary = Num(1) /\ KeyAt(1).primary = Num(1)
    /\ KeyAt(2).primary = Num(2)
    /\ StrLT(file_names[3], file_names[1])

-----------------------------------------------------------------------------
\* C7: for a fixed set of files the order of dicom_files is the same for every
\* order of the directory listing: any two files of the output stand in the
\* order that their keys, and at equal keys their paths, decide.
C7_OrderIndependentOfListing ==
    ScanSucceeded =>
      \A i \in Positions : \A j \in Positions : i < j => BeforeAsAPair(i, j)

\* Two files with the same key, names "A" and "a"
C7_Witness ==
    /\ ScanSucceeded
    /\ Len(dicom_files) >= 2
    /\ KeyAt(1) = KeyAt(2)
    /\ file_names[1] # file_names[2]

-----------------------------------------------------------------------------
\* Geometry that rule (a) cannot use
ZeroCrossProduct(ds) ==
    PositionUsable(ds) /\ OrientationUsable(ds) /\ SliceNormal(ds) = <<0, 0, 0>>
ShortOrientation(ds) == ds.iop.k = "seq" /\ Len(ds.iop.v) < 6
ShortPosition(ds) == ds.pos.k = "seq" /\ Len(ds.pos.v) < 3
MalformedGeometry(ds) ==
    ZeroCrossProduct(ds) \/ ShortOrientation(ds) \/ ShortPosition(ds)

\* C8: malformed geometry (a zero cross product, an orientation with fewer than
\* 6 components, a position with fewer than 3) never makes the key computation
\* raise: the record falls back to the Z of the position, then to sliceLocation,
\* then to the rule for a record without either, and stays in the output.
C8_MalformedGeometryDegrades ==
    /\ (scan_pc \in {"publish", "finally"} /\ Decodable # {})
       => scan_branch = "success"
    /\ ScanSucceeded =>
         \A e \in Decodable :
           MalformedGeometry(e.ds) =>
             \E i \in Positions :
               /\ file_names[i] = e.name
               /\ KeyAt(i).primary =
                    IF PositionUsable(e.ds) THEN Num(e.ds.pos.v[3].v)
                    ELSE IF HasSliceLocation(e.ds) THEN Num(e.ds.sl.v)
                    ELSE IF HasInstanceNumber(e.ds) THEN Num(e.ds.inst.v)
                    ELSE Inf

\* A zero cross product, a short orientation and a short position in one scan
C8_Witness ==
    /\ ScanSucceeded
    /\ Len(dicom_files) = 3
    /\ \E e \in Decodable : ZeroCrossProduct(e.ds)
    /\ \E e \in Decodable : ShortOrientation(e.ds)
    /\ \E e \in Decodable : ShortPosition(e.ds) /\ HasSliceLocation(e.ds)

-----------------------------------------------------------------------------
\* The step in which the scan task publishes the outcome of one of its branches
Publishes(branch) ==
    scan_pc = "publish" /\ scan_branch = branch /\ scan_pc' = "finally"

\* The step in which the task ends and its returned event is queued
Returns(branch) ==
    scan_pc = "finally" /\ scan_branch = branch /\ scan_pc' = "idle"

Undecodable == { e \in scan_dir : e.kind = "file" /\ ~ e.ok }

ScanErrorMessages ==
    { MsgEmptyPath, MsgNoValid, MsgPermission, MsgAccess("OSError") }
    \cup { MsgNotFound(p) : p \in Paths }

\* C9: a file whose header cannot be decoded is left out of dicom_files and
\* file_names; with another valid file the scan succeeds (has_loaded true) and
\* sets no error_message; with no valid file error_message is "No valid DICOM
\* files found in this directory.", dicom_files stays empty and has_loaded false.
C9_UndecodableFilesAreSkipped ==
    [][ /\ Publishes("success") =>
             /\ has_loaded'
             /\ dicom_files' # <<>>
             /\ error_message' = error_message
             /\ error_message' \notin ScanErrorMessages
             /\ \A e \in Undecodable : \A i \in 1..Len(dicom_files') :
                  file_names'[i] # e.name /\ dicom_files'[i][2] # e.name
        /\ Publishes("no_valid") =>
             /\ error_message' = MsgNoValid
             /\ dicom_files' = <<>>
             /\ file_names' = <<>>
             /\ ~ has_loaded'
        /\ (scan_pc = "publish" /\ Decodable # {}) => scan_branch = "success"
        /\ (scan_pc = "publish" /\ scan_branch = "no_valid") => Decodable = {}
      ]_vars

\* A scan has succeeded on a directory with a file it could not decode
C9_Witness ==
    /\ ScanSucceeded
    /\ Undecodable # {}
    /\ has_loaded
    /\ error_message = NoMessage
    /\ Len(dicom_files) = 2

-----------------------------------------------------------------------------
\* C10: scan_directory ends with "Directory not found: ..." for a path that is
\* missing or not a directory, with the permission message for a permission
\* failure and with "Please enter a valid directory path." for an empty path,
\* three different texts; in each case dicom_files is empty, has_loaded is false
\* and no slice load is triggered.
C10_DirectoryErrorsAreDistinct ==
    [][ /\ Publishes("not_found") =>
             /\ error_message' = MsgNotFound(directory_path)
             /\ error_message' \notin {MsgPermission, MsgEmptyPath, NoMessage}
        /\ Publishes("permission") =>
             /\ error_message' = MsgPermission
             /\ MsgPermission \notin {MsgEmptyPath, NoMessage}
        /\ Publishes("empty_path") =>
             /\ error_message' = MsgEmptyPath
             /\ MsgEmptyPath # NoMessage
        /\ \A b \in {"not_found", "permission", "empty_path"} :
             /\ Publishes(b) => (dicom_files' = <<>> /\ ~ has_loaded')
             /\ Returns(b) =>
                  /\ dicom_files' = <<>> /\ ~ has_loaded' /\ ~ is_loading'
                  /\ load_pending' = load_pending
        /\ (scan_pc = "probe" /\ scan_pc' = "publish") =>
             /\ directory_path = "" => scan_branch' = "empty_path"
             /\ PathKind(directory_path) \in {"missing", "notdir"}
                  => scan_branch' = "not_found"
             /\ PathKind(directory_path) = "denied" => scan_branch' = "permission"
      ]_vars

\* The permission failure has been reported
C10_Witness ==
    /\ scan_pc = "finally"
    /\ scan_branch = "permission"
    /\ error_message = MsgPermission
    /\ dicom_files = <<>>
    /\ ~ has_loaded

-----------------------------------------------------------------------------
(* What the claims on rendering read *)

\* a step has put a freshly encoded image on display: only _process_image
\* writes a data URI
Drawn ==
    /\ current_image_base64' # current_image_base64
    /\ current_image_base64' # Placeholder

\* the raster a data URI carries
Payload(image) == image[2]
OnDisplay == Payload(current_image_base64)

IsGrayFrame(a) == a # None /\ Len(a.shape) = 2
IsColourFrame(a) == a # None /\ Len(a.shape) = 3 /\ a.shape[3] \in {3, 4}

\* twice lo = center - width/2 and twice hi = center + width/2
StatedLo2(center, width) == 2 * center - width
StatedHi2(center, width) == 2 * center + width
StatedHu(sample, slope, intercept) == (sample * slope) + intercept
StatedClip2(x2, lo2, hi2) == IF x2 <= lo2 THEN lo2 ELSE IF x2 >= hi2 THEN hi2 ELSE x2

\* the truncation of 255 * (clip(hu, lo, hi) - lo) / (hi - lo), for width > 0
StatedGray(sample, slope, intercept, center, width) ==
    LET lo2 == StatedLo2(center, width)
        hi2 == StatedHi2(center, width)
        hu == StatedHu(sample, slope, intercept)
    IN  (255 * (StatedClip2(2 * hu, lo2, hi2) - lo2)) \div (hi2 - lo2)

-----------------------------------------------------------------------------
\* C11: for a grayscale frame and a window width > 0, every output pixel is the
\* truncation of 255 * (clip(sample * slope + intercept, lo, hi) - lo) / (hi - lo)
\* with lo = center - width/2 and hi = center + width/2; a value <= lo gives 0,
\* a value >= hi gives 255, the result is in 0..255, and for center 40 and width
\* 400 the value 40 gives 127 or 128.
C11_GrayscaleWindowing ==
    [][ (Drawn /\ IsGrayFrame(cached_pixel_array') /\ window_width' > 0) =>
          LET a == cached_pixel_array'
              px == Payload(current_image_base64').px
              hu(i) == StatedHu(a.data[i], cached_rescale_slope',
                                cached_rescale_intercept')
          IN  /\ DOMAIN px = DOMAIN a.data
              /\ \A i \in DOMAIN a.data :
                   /\ px[i] = StatedGray(a.data[i], cached_rescale_slope',
                                         cached_rescale_intercept',
                                         window_center', window_width')
                   /\ px[i] \in 0..255
                   /\ 2 * hu(i) <= StatedLo2(window_center', window_width')
                        => px[i] = 0
                   /\ 2 * hu(i) >= StatedHi2(window_center', window_width')
                        => px[i] = 255
                   /\ (window_center' = 40 /\ window_width' = 400 /\ hu(i) = 40)
                        => px[i] \in {127, 128}
      ]_vars

\* The stored samples 0, 432, 532, 632 with slope 2 and intercept -1024 are the
\* values -1024, -160, 40, 240; in the window 40/400 they are drawn 0, 0, 127, 255
C11_Witness ==
    /\ cached_pixel_array = [shape |-> <<2, 2>>, data |-> <<0, 432, 532, 632>>]
    /\ cached_rescale_slope = 2
    /\ cached_rescale_intercept = -1024
    /\ window_center = 40
    /\ window_width = 400
    /\ current_image_base64 = DataUri(Raster("L", <<2, 2>>, <<0, 0, 127, 255>>))

-----------------------------------------------------------------------------
\* a step in which a handler has called _process_image: a slice has been loaded
\* or a window parameter has changed
RenderStep ==
    \/ LoadSuccess
    \/ window_width' # window_width
    \/ window_center' # window_center

IsDataUri(image) == image # Placeholder /\ image[1] = "data:image/png;base64,"

\* C12: with window width 0 a grayscale frame renders to a raster whose every
\* pixel is 0, whatever the samples, slope, intercept and center; this is not an
\* error: the image is a data URI, not the placeholder, and error_message is
\* not set.
C12_ZeroWidthIsFlat ==
    [][ (RenderStep /\ IsGrayFrame(cached_pixel_array') /\ window_width' = 0) =>
          /\ IsDataUri(current_image_base64')
          /\ DOMAIN Payload(current_image_base64').px = DOMAIN cached_pixel_array'.data
          /\ \A i \in DOMAIN cached_pixel_array'.data :
               Payload(current_image_base64').px[i] = 0
          /\ error_message' = error_message
      ]_vars

\* The frame with the samples -161 .. 241 is on display at width 0, all black
C12_Witness ==
    /\ window_width = 0
    /\ window_center = 40
    /\ cached_pixel_array = [shape |-> <<2, 3>>, data |-> <<-161, -160, 40, 239, 240, 241>>]
    /\ current_image_base64 = DataUri(Raster("L", <<2, 3>>, <<0, 0, 0, 0, 0, 0>>))
    /\ error_message = NoMessage

-----------------------------------------------------------------------------
-----------------------------------------------------------------------------
\* the number of samples of one frame of a stack: the shape without its first
\* dimension
RECURSIVE StatedSize(_)
StatedSize(shape) == IF shape = <<>> THEN 1 ELSE Head(shape) * StatedSize(Tail(shape))
StatedFrameSize(a) == StatedSize(Tail(a.shape))

-----------------------------------------------------------------------------
StatedSamples(a) == {a.data[i] : i \in DOMAIN a.data}
StatedMin(a) == CHOOSE m \in StatedSamples(a) : \A x \in StatedSamples(a) : m <= x
StatedMax(a) == CHOOSE m \in StatedSamples(a) : \A x \in StatedSamples(a) : m >= x
IsUniform(a) == \A x, y \in StatedSamples(a) : x = y

\* C15: on the colour path, when the samples are not all equal, every sample v is
\* mapped to the truncation of 255 * (v - min) / (max - min), min and max taken
\* over all samples of all channels: the smallest sample becomes 0, the largest
\* 255, and the order of the sample values is preserved.
C15_ColourStretch ==
    [][ (Drawn /\ IsColourFrame(cached_pixel_array')
               /\ ~ IsUniform(cached_pixel_array')) =>
          LET a == cached_pixel_array'
              px == Payload(current_image_base64').px
              lo == StatedMin(a)
              hi == StatedMax(a)
          IN  /\ DOMAIN px = DOMAIN a.data
              /\ \A i \in DOMAIN a.data :
                   /\ px[i] = (255 * (a.data[i] - lo)) \div (hi - lo)
                   /\ a.data[i] = lo => px[i] = 0
                   /\ a.data[i] = hi => px[i] = 255
              /\ \A i, j \in DOMAIN a.data : a.data[i] <= a.data[j] => px[i] <= px[j]
      ]_vars

\* The samples 10 .. 61 of a 1 x 2 RGB frame are drawn 0 .. 255; so are the
\* samples of the frame cached now when the image it drew is on display
C15_Witness ==
    /\ cached_pixel_array = [shape |-> <<1, 2, 3>>, data |-> <<10, 20, 30, 40, 50, 61>>]
    /\ current_image_base64 =
         DataUri(Raster("RGB", <<1, 2, 3>>, <<0, 50, 100, 150, 200, 255>>))

-----------------------------------------------------------------------------
-----------------------------------------------------------------------------
\* C17: in every reachable state current_image_base64 is either the sentinel
\* "/placeholder.svg" or a string that starts with "data:image/png;base64,".
C17_ImageIsPlaceholderOrDataUri ==
    \/ current_image_base64 = <<"/placeholder.svg">>
    \/ /\ Len(current_image_base64) = 2
       /\ current_image_base64[1] = "data:image/png;base64,"

\* An RGBA frame has been encoded and is on display
C17_Witness ==
    /\ cached_pixel_array = [shape |-> <<1, 1, 4>>, data |-> <<0, 85, 170, 255>>]
    /\ current_image_base64 # <<"/placeholder.svg">>
    /\ Payload(current_image_base64) = Raster("RGBA", <<1, 1, 4>>, <<0, 85, 170, 255>>)

-----------------------------------------------------------------------------
\* a frame _process_image cannot render: a colour frame without samples, whose
\* minimum np.min refuses to take
IsUnrenderable(a) == IsColourFrame(a) /\ a.data = <<>>

\* C18: when a step of rendering the cached frame fails, the failure does not
\* propagate out of the event handler that triggered the render:
\* current_image_base64 becomes "/placeholder.svg", and the window parameters,
\* current_index and dicom_files keep the values the handler gave them.
C18_RenderFailureIsContained ==
    [][ (RenderStep /\ IsUnrenderable(cached_pixel_array')) =>
          /\ current_image_base64' = <<"/placeholder.svg">>
          /\ error_message' = error_message
          /\ dicom_files' = dicom_files
          /\ current_index' = current_index
          /\ \A value \in WidthInputs :
               (update_window_width(value) /\ window_width' # window_width)
                 => (window_width' \in {0, -5, 5, 400} /\ window_center' = window_center)
          /\ \A value \in CenterInputs :
               (update_window_center(value) /\ window_center' # window_center)
                 => (window_center' \in {0, -3} /\ window_width' = window_width)
          /\ \A preset_name \in PresetInputs :
               (apply_preset(preset_name) /\ window_width' # window_width)
                 => selected_preset' = preset_name
          /\ LoadSuccess =>
               (window_width' = window_width /\ window_center' = window_center)
      ]_vars

\* The width has been set to 5 on a frame that cannot be rendered
C18_Witness ==
    /\ cached_pixel_array = [shape |-> <<0, 0, 3>>, data |-> <<>>]
    /\ window_width = 5
    /\ current_image_base64 = <<"/placeholder.svg">>
    /\ error_message = NoMessage
    /\ Len(dicom_files) = 2

-----------------------------------------------------------------------------
\* C19: when the full decode of the selected slice fails in load_selected_image
\* (file unreadable or pixel data not decodable), then after the load the
\* displayed image is the sentinel placeholder and error_message is set, also
\* when an image of a previously selected slice was on display before.
C19_Stated_FailedLoadShowsPlaceholder ==
    [][ LoadFailure =>
          /\ current_image_base64' = <<"/placeholder.svg">>
          /\ error_message' # NoMessage
      ]_vars

-----------------------------------------------------------------------------
\* "Error loading image: "
StatedPrefix ==
    <<69, 114, 114, 111, 114, 32, 108, 111, 97, 100, 105, 110, 103, 32, 105, 109, 97, 103, 101, 58, 32>>

\* "transfer syntax", "no handler", "decode", "compressed"
StatedKeywords ==
    { <<116, 114, 97, 110, 115, 102, 101, 114, 32, 115, 121, 110, 116, 97, 120>>,
      <<110, 111, 32, 104, 97, 110, 100, 108, 101, 114>>,
      <<100, 101, 99, 111, 100, 101>>,
      <<99, 111, 109, 112, 114, 101, 115, 115, 101, 100>> }

Occurs(key, text) ==
    \E i \in 1..Len(text) :
       /\ i + Len(key) - 1 <= Len(text)
       /\ \A j \in 1..Len(key) : text[i + j - 1] = key[j]

HasKeyword(text) == \E key \in StatedKeywords : Occurs(key, Lowercase(text))

StartsWith(prefix, text) ==
    /\ Len(text) >= Len(prefix)
    /\ \A j \in 1..Len(prefix) : text[j] = prefix[j]

\* C20: the message set for a failed slice load is the fixed compressed-transfer-
\* syntax message exactly when the lowercased error text contains "transfer
\* syntax", "no handler", "decode" or "compressed"; otherwise it is "Error
\* loading image: " followed by the error text, so the two kinds of failure are
\* never given the same message.
C20_FailedLoadMessage ==
    [][ (load_pending' < load_pending /\ error_message' # NoMessage
                                      /\ UNCHANGED image_state) =>
          \A text \in ErrorTexts :
             LoadFailureWith(text) =>
               /\ HasKeyword(text) =>
                    /\ error_message' = MsgCompressed
                    /\ ~ StartsWith(StatedPrefix, error_message')
               /\ ~ HasKeyword(text) =>
                    /\ error_message' = StatedPrefix \o text
                    /\ error_message' # MsgCompressed
      ]_vars

\* A load has failed on a file in a compressed transfer syntax
C20_Witness ==
    /\ error_message = MsgCompressed
    /\ load_pending = 0
    /\ Len(dicom_files) = 2

-----------------------------------------------------------------------------
(* C21 *)

\* what a file of a session holds: there DcmRead has one outcome
FileOf(file_path) == CHOOSE ds \in DcmRead(file_path) : TRUE
SelectedFile == FileOf(dicom_files[current_index + 1])

\* no load queued or running, and no scan that will queue one
NoLoadInFlight == load_pending = 0 /\ load_tasks = <<>> /\ scan_tasks = <<>>

\* the renderings of a decoded file under the window of the state
ImagesOf(ds) ==
    { ImageOf(r) : r \in RenderOutcomes(ds.pixel_array, RescaleSlopeOf(ds),
                                        RescaleInterceptOf(ds), window_center,
                                        window_width) }

\* C21, as stated: once no load is in flight, the cached frame and the image
\* on display are those of dicom_files[current_index], when that file decodes.
\* The model refutes it: a load that read an earlier selection can finish last.
C21_Stated_LatestSelectionWins ==
    (NoLoadInFlight /\ dicom_files # <<>> /\ SelectedFile.k = "dataset") =>
        /\ cached_pixel_array = SelectedFile.pixel_array
        /\ current_image_base64 \in ImagesOf(SelectedFile)

-----------------------------------------------------------------------------
(* C22 *)

\* scan_tasks is in start order: task i is superseded when a task started
\* after it has already published what it found
Superseded(i) == \E j \in DOMAIN scan_tasks : j > i /\ scan_tasks[j].pc = "finally"

\* a scan has cleared the results, none has published since
ScanHasCleared ==
    scan_tasks # <<>> /\ dicom_files = <<>> /\ current_image_base64 = Placeholder

\* C22, as stated: the results are those of the most recently started scan, so
\* a scan that publishes after a later one has published changes none of
\* dicom_files, file_names, has_loaded and error_message; and a slice load that
\* was in flight when a scan cleared the results leaves the placeholder.
\* The model refutes both halves.
C22_Stated_LatestScanWins ==
    [][ /\ \A i \in DOMAIN scan_tasks :
             (Superseded(i) /\ ScanTaskPublish(i)) =>
                 UNCHANGED <<dicom_files, file_names, has_loaded, error_message>>
        /\ \A i \in DOMAIN load_tasks :
             (ScanHasCleared /\ LoadTaskApply(i)) =>
                 current_image_base64' = Placeholder ]_vars

-----------------------------------------------------------------------------
(* C23 *)

\* the directory has a regular file whose header decodes
HasValidFile(path) ==
    /\ path # "" /\ PathKind(path) = "dir"
    /\ \E k \in DOMAIN Iterdir(path) : Iterdir(path)[k].kind = "file" /\ Iterdir(path)[k].ok

\* the file lists a scan of the session can publish
ScannedLists ==
    { ValidDicoms(SortableDicoms(path, Iterdir(path))) :
        path \in { p \in Paths \cup SeriesPaths : HasValidFile(p) } }

\* a task has published the list and has not yet returned
JustPublished(list) ==
    /\ dicom_files = list
    /\ \E i \in DOMAIN scan_tasks :
         /\ scan_tasks[i].pc = "finally" /\ scan_tasks[i].branch = "success"
         /\ ValidDicoms(scan_tasks[i].items) = list

\* the frame of the file is cached and its rendering is on display
Shows(file_path) ==
    /\ FileOf(file_path).k = "dataset"
    /\ cached_pixel_array = FileOf(file_path).pixel_array
    /\ current_image_base64 \in ImagesOf(FileOf(file_path))

\* C23: a scan task takes the path of success exactly when the directory has a
\* valid file; the block that publishes dicom_files sets current_index to 0 and
\* workflow_step to "list" in the same step, and the other paths publish no
\* list; the task queues one load_selected_image on the path of success and
\* none on the others; and when the first file of the published list decodes,
\* its image is eventually on display unless the list is replaced meanwhile.
C23_LoadFollowsSuccessfulScan ==
    /\ [][ \A i \in DOMAIN scan_tasks :
             /\ ScanTaskProbe(i) =>
                  (scan_tasks'[i].branch = "success" <=> HasValidFile(directory_path))
             /\ ScanTaskPublish(i) =>
                  IF scan_tasks[i].branch = "success"
                  THEN /\ dicom_files' = ValidDicoms(scan_tasks[i].items)
                       /\ dicom_files' # <<>>
                       /\ current_index' = 0
                       /\ workflow_step' = "list"
                  ELSE UNCHANGED <<dicom_files, current_index, workflow_step>>
             /\ ScanTaskFinally(i) =>
                  load_pending' = IF scan_tasks[i].branch = "success"
                                  THEN load_pending + 1 ELSE load_pending ]_vars
    /\ \A list \in ScannedLists :
         (JustPublished(list) /\ FileOf(list[1]).k = "dataset")
             ~> (Shows(list[1]) \/ dicom_files # list)

\* the scan has returned, its load has run, the first slice is on display
C23_Witness ==
    /\ Outstanding = 0
    /\ dicom_files # <<>> /\ current_index = 0 /\ workflow_step = "list"
    /\ Shows(dicom_files[1])


-----------------------------------------------------------------------------
(* C24 *)

\* the renderings of the cached frame under the window of the state
RenderingsOfCache ==
    { ImageOf(r) : r \in RenderOutcomes(cached_pixel_array, cached_rescale_slope,
                                        cached_rescale_intercept, window_center,
                                        window_width) }

\* C24, as stated: after every event the image on display is the placeholder
\* or a rendering of the cached frame, with its cached slope and intercept,
\* under the current window.  The model refutes it: a load whose metadata
\* extraction raises stores the new frame and leaves the old image.
C24_Stated_ImageIsRenderingOfCache ==
    \/ current_image_base64 = Placeholder
    \/ /\ cached_pixel_array # None
       /\ current_image_base64 \in RenderingsOfCache

-----------------------------------------------------------------------------
(* C25 *)

\* what a step may change besides the five values and the image
OtherFields ==
    <<zoom_level, pan_x, pan_y, selected_preset, current_index, error_message,
      load_pending>>

-----------------------------------------------------------------------------
(* C26 *)

\* the entries of the table as the source writes them, for the names an event
\* of a session carries
StatedEntry(name) ==
    CASE name = "Lung" -> <<-600, 1500>>
      [] name = "Stroke" -> <<35, 30>>
      [] name = "Brain" -> <<40, 80>>

\* C26: apply_preset with a name of the table sets window_center and
\* window_width to the entry of the name, selected_preset to the name, and
\* renders the cached frame under that window, the frame and everything else
\* staying as they were; with another name it changes nothing; every name of
\* preset_options is in the table; and a step of a session that is not an
\* apply_preset of a name of the table (scan_directory's blocks, reset_scan,
\* load_selected_image, the slice events) leaves the window as it was.
C26_PresetsSetTheWindow ==
    [][ /\ \A name \in { "Lung", "Custom" } :
             apply_preset(name) =>
               IF name = "Custom"
               THEN UNCHANGED vars
               ELSE /\ <<window_center', window_width'>> = StatedEntry(name)
                    /\ selected_preset' = name
                    /\ current_image_base64' \in
                         ProcessImage(cached_pixel_array, cached_rescale_slope,
                                      cached_rescale_intercept,
                                      StatedEntry(name)[1], StatedEntry(name)[2],
                                      current_image_base64)
                    /\ UNCHANGED <<cached_frame, scan_state, background,
                                   error_message, load_pending, zoom_pan>>
        /\ \A i \in DOMAIN preset_options : preset_options[i] \in DOMAIN Presets
        /\ <<window_center', window_width'>> # <<window_center, window_width>> =>
             /\ apply_preset("Lung")
             /\ selected_preset' = "Lung"
      ]_vars

\* the Lung preset applied to a loaded slice of /ct
C26_Witness ==
    /\ selected_preset = "Lung"
    /\ window_center = -600
    /\ window_width = 1500
    /\ dicom_files # <<>>
    /\ cached_pixel_array # None
    /\ IsDataUri(current_image_base64)
    /\ current_image_base64 \in RenderingsOfCache

-----------------------------------------------------------------------------
(* C27 *)

-----------------------------------------------------------------------------
(* C28 *)

\* Path.name of an absolute path
BaseName(file_path) == file_path[2]

\* C28: in every state of a session, between the blocks of overlapping scans
\* too, dicom_files and file_names have the same length and file_names[i] is
\* the base name of dicom_files[i].
C28_NamesMatchFiles ==
    /\ Len(file_names) = Len(dicom_files)
    /\ \A i \in DOMAIN dicom_files : file_names[i] = BaseName(dicom_files[i])

\* a list of two files on display while another scan is between its blocks
C28_Witness ==
    /\ Len(dicom_files) = 2
    /\ file_names = << BaseName(dicom_files[1]), BaseName(dicom_files[2]) >>
    /\ \E i \in DOMAIN scan_tasks : scan_tasks[i].pc = "publish"

-----------------------------------------------------------------------------
(* C29 *)

\* C29: in every state of a session current_index >= 0, and current_index <
\* len(dicom_files) whenever dicom_files is not empty, for every interleaving of
\* scans, reset_scan, next_image, prev_image, set_slice_index and
\* handle_file_selection with indices below, inside and above the list.
C29_IndexWithinList ==
    /\ current_index >= 0
    /\ dicom_files # <<>> => current_index < Len(dicom_files)

\* the last slice of /ct selected, and a scan about to publish the one file of
\* /mr in its place
C29_Witness ==
    /\ Len(dicom_files) = 2
    /\ current_index = 1
    /\ directory_path = "/mr"
    /\ \E i \in DOMAIN scan_tasks :
         scan_tasks[i].pc = "publish" /\ Len(scan_tasks[i].items) = 1

-----------------------------------------------------------------------------
(* C30 *)

\* C30: in every state of a session has_loaded is true exactly when
\* dicom_files is not empty, and workflow_step = "list" implies has_loaded.
C30_LoadedMeansFiles ==
    /\ has_loaded <=> dicom_files # <<>>
    /\ workflow_step = "list" => has_loaded

\* the result list on display with its first slice loaded, no scan running
C30_Witness ==
    /\ workflow_step = "list"
    /\ has_loaded
    /\ dicom_files # <<>>
    /\ IsDataUri(current_image_base64)
    /\ scan_tasks = <<>>

-----------------------------------------------------------------------------
(* C31 *)

\* the paths of scan_directory
ScanPaths == { "empty_path", "not_found", "no_valid", "success", "permission", "os_error" }

\* the one scan has cleared the results and not yet published what it found
ScanBeforePublish ==
    scan_tasks # <<>> /\ scan_tasks[1].pc \in { "probe", "publish" }

\* C31, as stated: while a single scan is running, is_loading is true,
\* dicom_files is empty and has_loaded is false.  The model refutes it: the
\* task still runs between the block that publishes and the finally block.
C31_Stated_RunningScanShowsLoading ==
    scan_tasks # <<>> =>
        is_loading /\ dicom_files = <<>> /\ ~has_loaded

\* C31, amended: a single scan that has not yet published what it found has
\* is_loading true, dicom_files empty and has_loaded false; the step that ends
\* a task leaves is_loading false; and on each of its six paths the task ends,
\* in a state where no scan runs and is_loading is false.
C31_ScanEndsNotLoading ==
    /\ [](ScanBeforePublish => is_loading /\ dicom_files = <<>> /\ ~has_loaded)
    /\ [][ Len(scan_tasks') < Len(scan_tasks) => ~is_loading' ]_vars
    /\ \A path \in ScanPaths :
         (scan_tasks # <<>> /\ scan_tasks[1].branch = path)
            ~> (scan_tasks = <<>> /\ ~is_loading)

\* a scan that found the slices of /ct and has not yet published them
C31_Witness ==
    /\ ScanBeforePublish
    /\ scan_tasks[1].branch = "success"
    /\ is_loading
    /\ dicom_files = <<>>

-----------------------------------------------------------------------------
(* C32 *)

\* C32, as stated: a load_selected_image that succeeds leaves no message of an
\* earlier failed load in error_message.  The model refutes it: the block of a
\* load that succeeds does not assign error_message.
C32_Stated_SuccessfulLoadClearsMessage ==
    [][ (load_pending' < load_pending /\ error_message # NoMessage /\ LoadSuccess)
          => error_message' = NoMessage ]_vars

-----------------------------------------------------------------------------
(* C33 *)

\* C33, as stated: reset_scan clears the scan results and leaves
\* directory_path as it was, and the open_directory_dialog event it returns
\* leaves the directory browser open.  The model refutes the second half: the
\* event is swallowed when suppress_directory_dialog is still set from the
\* mouse-down of the Scan click that produced the results.
C33_Stated_ResetOpensBrowser ==
    [][ /\ dialog_pending' > dialog_pending =>
              /\ dicom_files' = <<>> /\ file_names' = <<>> /\ ~has_loaded'
              /\ workflow_step' = "select"
              /\ directory_path' = directory_path
        /\ dialog_pending' < dialog_pending =>
              /\ directory_browser_visible'
              /\ directory_path' = directory_path
      ]_vars

-----------------------------------------------------------------------------
(* C34 *)

\* the window is the one the selected preset names
WindowOfPreset ==
    selected_preset # "" =>
        /\ selected_preset \in { "Lung", "Stroke", "Brain" }
        /\ <<window_center, window_width>> = StatedEntry(selected_preset)

\* C34: whenever selected_preset is not empty, (window_center, window_width)
\* is the table entry of that preset; update_window_width and
\* update_window_center with a numeric string set the value and clear
\* selected_preset, reset_view clears it, and with a string float() rejects
\* they change neither the window nor selected_preset.
C34_PresetNamesTheWindow ==
    /\ []WindowOfPreset
    /\ [][ /\ \A value \in WidthInputs :
                update_window_width(value) =>
                  IF Float(value) = ValueError
                  THEN UNCHANGED <<window_center, window_width, selected_preset>>
                  ELSE /\ window_width' = Float(value).v
                       /\ selected_preset' = ""
                       /\ window_center' = window_center
           /\ \A value \in CenterInputs :
                update_window_center(value) =>
                  IF Float(value) = ValueError
                  THEN UNCHANGED <<window_center, window_width, selected_preset>>
                  ELSE /\ window_center' = Float(value).v
                       /\ selected_preset' = ""
                       /\ window_width' = window_width
           /\ (window_center' # window_center \/ window_width' # window_width) =>
                \/ selected_preset' = ""
                \/ /\ selected_preset' \in { "Lung", "Stroke", "Brain" }
                   /\ <<window_center', window_width'>> = StatedEntry(selected_preset')
         ]_vars

\* the Stroke preset, then a width typed in: the preset is no longer named
C34_Witness ==
    /\ window_center = 35
    /\ window_width = 5
    /\ selected_preset = ""
    /\ cached_pixel_array # None
    /\ current_image_base64 \in RenderingsOfCache

-----------------------------------------------------------------------------
(* C35 *)

\* the image on display is a rendering of the cached colour frame: its samples
\* stretched from min..max to 0..255 or, when they are all equal, one value
\* the cast of that sample to 8 bits can give
ShowsColourFrame ==
    /\ IsColourFrame(cached_pixel_array)
    /\ cached_pixel_array.data # <<>>
    /\ IsDataUri(current_image_base64)
    /\ LET a == cached_pixel_array
           px == Payload(current_image_base64).px
           lo == StatedMin(a)
           hi == StatedMax(a)
       IN  /\ Payload(current_image_base64).shape = a.shape
           /\ DOMAIN px = DOMAIN a.data
           /\ IF IsUniform(a)
              THEN \E u \in Uint8Casts(lo) : \A i \in DOMAIN px : px[i] = u
              ELSE \A i \in DOMAIN px : px[i] = (255 * (a.data[i] - lo)) \div (hi - lo)

\* a handler has set the window or the preset and rendered the cached frame
WindowEvent ==
    /\ cached_frame' = cached_frame
    /\ load_pending' = load_pending
    /\ \/ window_center' # window_center
       \/ window_width' # window_width
       \/ selected_preset' # selected_preset

\* the cast of every sample of a to 8 bits has one result
CastIsDefined(a) == ~IsUniform(a) \/ StatedMin(a) \in 0..255

\* C35: while a colour frame is cached and on display, update_window_center,
\* update_window_width, apply_preset and reset_view leave it on display, and
\* leave the image as it was whenever the cast to 8 bits has one result; and
\* the renderings of the frame are the same for every rescale slope and
\* intercept.
C35_ColourIgnoresWindow ==
    [][ /\ (ShowsColourFrame /\ WindowEvent) =>
              /\ ShowsColourFrame'
              /\ CastIsDefined(cached_pixel_array) =>
                   current_image_base64' = current_image_base64
        /\ IsColourFrame(cached_pixel_array) =>
              \A slope \in { 1, 2 }, intercept \in { 0, -1024 } :
                 RenderOutcomes(cached_pixel_array, slope, intercept,
                                window_center, window_width)
                   = RenderOutcomes(cached_pixel_array, cached_rescale_slope,
                                    cached_rescale_intercept, 40, 400)
      ]_vars

\* the colour frame 10 .. 61 on display under the Stroke preset, as it was
\* under the window 40/400
C35_Witness ==
    /\ cached_pixel_array = [shape |-> <<1, 2, 3>>, data |-> <<10, 20, 30, 40, 50, 61>>]
    /\ selected_preset = "Stroke"
    /\ window_width = 30
    /\ current_image_base64 =
         DataUri(Raster("RGB", <<1, 2, 3>>, <<0, 50, 100, 150, 200, 255>>))

-----------------------------------------------------------------------------
\* the step that unlocks started from the configured password in the input
UnlockNeedsPassword ==
    ~metadata_unlocked /\ metadata_unlocked' =>
        /\ metadata_password_input = "dicom"
        /\ metadata_password_input' = ""
        /\ metadata_password_error' = ""
        /\ UNCHANGED <<scan_results, is_loading, background, image_state>>

\* the step that raises "Invalid password." started from another input and
\* leaves the lock and the input as they were
WrongPasswordKeepsLock ==
    metadata_password_error' = "Invalid password."
      /\ metadata_password_error # "Invalid password." =>
        /\ metadata_password_input # "dicom"
        /\ UNCHANGED <<metadata_unlocked, metadata_password_input>>

\* the start of a scan_directory task and reset_scan after a scan leave the
\* lock closed, and every step that closes it empties the input and the error
ScanAndResetLock ==
    /\ Len(scan_tasks') > Len(scan_tasks) => ~metadata_unlocked'
    /\ has_loaded /\ ~has_loaded' => ~metadata_unlocked'
    /\ metadata_unlocked /\ ~metadata_unlocked' =>
         metadata_password_input' = "" /\ metadata_password_error' = ""

\* the page shows the file list when has_loaded holds and the spinner is gone
ListShown == has_loaded /\ ~is_loading

\* the handlers of the lock, without the conclusion of C36 about the list
C36_LockHandlers ==
    [][UnlockNeedsPassword /\ WrongPasswordKeepsLock /\ ScanAndResetLock]_vars

\* C36: metadata_unlocked becomes true only through unlock_metadata called
\* while metadata_password_input equals the configured password; a wrong
\* password leaves it unchanged and sets metadata_password_error to "Invalid
\* password."; lock_metadata, reset_scan and the start of every scan_directory
\* set it back to false; so metadata is locked whenever a newly scanned file
\* list is first shown.
C36_Stated_LockedWhenListShown ==
    [][ /\ UnlockNeedsPassword
        /\ WrongPasswordKeepsLock
        /\ ScanAndResetLock
        /\ ~ListShown /\ ListShown' => ~metadata_unlocked' ]_vars

-----------------------------------------------------------------------------
\* a slice has been loaded and drawn, so _extract_metadata (lines 600-624) has
\* filled the patient and study fields from a file
MetadataExtracted == current_image_base64 # Placeholder

\* C37: patient and study metadata (name, ID, study date, descriptions) is
\* rendered in the viewer's metadata panel only while metadata_unlocked is true.
C37_Stated_PanelOnlyWhileUnlocked ==
    metadata_panel /\ MetadataExtracted => metadata_unlocked

-----------------------------------------------------------------------------
\* a step of a zoom event that moved zoom_level: the slice, the window and
\* the image stay, or the step is reset_view and the window is (40, 400)
ZoomStepKeepsView ==
    zoom_level' # zoom_level =>
        /\ current_index' = current_index
        /\ \/ UNCHANGED <<window_center, window_width, current_image_base64>>
           \/ /\ window_center' = 40 /\ window_width' = 400
              /\ zoom_level' = 100 /\ pan_x' = 0 /\ pan_y' = 0

\* C38: in every reachable state 0.25 <= zoom_level <= 4.0, for every sequence
\* of set_zoom (with any value), zoom_in, zoom_out, reset_zoom and reset_view;
\* zoom_in at 4.0 and zoom_out at 0.25 leave zoom_level unchanged, and none of
\* these events changes current_index, the window or the rendered image other
\* than reset_view resetting the window to (40, 400).
C38_ZoomStaysWithinLimits ==
    /\ [](25 <= zoom_level /\ zoom_level <= 400)
    /\ [](zoom_level = 400 => ~ENABLED (zoom_in /\ zoom_level' # zoom_level))
    /\ [](zoom_level = 25 => ~ENABLED (zoom_out /\ zoom_level' # zoom_level))
    /\ [][ZoomStepKeepsView]_vars

\* zoomed in to the limit off the steps of 0.25, under the Lung window
C38_Witness ==
    /\ zoom_level = 400
    /\ selected_preset = "Lung"
    /\ current_image_base64 # Placeholder

====
